---- MODULE Spec2Model ----
(***************************************************************************)
(* State-machine model of the SlateDB Ruby binding (ext/slatedb/src).      *)
(*                                                                         *)
(* Host threads run binding methods while holding the global VM lock       *)
(* (GVL).  A method that reaches the bridge (runtime.rs block_on) releases *)
(* the lock, waits for the engine future and takes the lock again before   *)
(* it returns.  Every method is one action when it never reaches the       *)
(* bridge, and otherwise a Begin step (all code before the lock is         *)
(* released), the steps of the future, and a Return step (all code after   *)
(* the lock is taken again).                                               *)
(***************************************************************************)
EXTENDS Integers, Sequences, FiniteSets, TLC

\* ------------------------------------------------------------------ bounds
NumThreads == 2
MaxAppends == 2
MaxTxnWrites == 1

Threads == 1..NumThreads
\* The host thread that loaded the extension and ran init (lib.rs).
MainThread == 1
NoThread == 0

\* ------------------------------------------------------------------ values
\* A key is a byte string; the empty string is the malformed key.
EmptyKey == <<>>
NonEmptyKeys == {<<1>>, <<2>>}
Keys == {EmptyKey} \cup NonEmptyKeys
Values == {"v1", "v2"}
\* A host string whose bytes are not valid UTF-8, and U+FFFD.
BinValue == "bin"
Replacement == "?"
Unknown == "unknown"
Pending == "pending"
NoValue == "nil"

\* An option value as it arrives in the kwargs hash.
Absent == "absent"
Nil == "nil"
BadValue == "bad"

VARIABLES
    gvl,          \* the thread holding the global VM lock, or NoThread
    pc,           \* per thread: "ruby" | "blocked" | "locked" | "resolved"
    call,         \* per thread: the binding call in flight
    last,         \* the most recently completed binding call and its result
    registry,     \* per thread: are the thread-local exception classes set
    written,      \* history, per key: the value of the one write call to it
                  \* that has returned with no other write since it began,
                  \* "pending" while that call runs, else "unknown"
    RUNTIME,      \* the OnceCell holding the Tokio runtime: 0 is empty
    builds,       \* how many times the runtime builder has run
    batch,        \* WriteBatch.inner: the accumulated operations
    log,          \* history: every operation appended to the batch, in order
    takenLog,     \* history: the results of all takes, concatenated
    handed,       \* history: per operation id, submissions that carried it
    store,        \* the engine's committed data
    db,           \* the Database, Reader and Admin handle: "absent", "open",
                  \* "closing" once the engine object behind it is closed,
                  \* "closed" once close() has returned
    snap,         \* Snapshot.inner (a RefCell) and its live shared borrows
    txn,          \* per Transaction: inner (a RefCell) and its shared borrows
    iter          \* Iterator.inner: the tokio Mutex and the cursor behind it;
                  \* sought is history: the key of a seek no next has followed

vars == <<gvl, pc, call, last, registry, written, RUNTIME, builds,
          batch, log, takenLog, handed, store, db, snap, txn, iter>>

bridgeVars == <<gvl, pc, call, last, RUNTIME, builds>>
batchVars == <<batch, log, takenLog, handed>>
handleVars == <<snap, txn, iter>>
engineVars == <<store, db>>

\* ------------------------------------------------------------------ errors.rs
ErrorKinds == {"Transaction", "Closed", "Unavailable", "Invalid", "Data",
               "Internal", "Other"}

\* define_exceptions: the superclass each class is defined under; the host's
\* own classes are children of StandardError, a panic surfaces as fatal.
Superclass(class) ==
    CASE class = "Error" -> "StandardError"
      [] class \in {"TransactionError", "ClosedError", "UnavailableError",
                    "InvalidArgumentError", "DataError", "InternalError"} -> "Error"
      [] class \in {"RuntimeError", "ArgumentError", "TypeError", "RangeError"}
            -> "StandardError"
      [] OTHER -> "Exception"

\* class is base or one of its descendants.
RECURSIVE Descends(_, _)
Descends(class, base) ==
    IF class = base THEN TRUE
    ELSE IF class = "Exception" THEN FALSE
    ELSE Descends(Superclass(class), base)

\* thread_local! cells of errors.rs: a cell read on thread t is set only when
\* define_exceptions ran on thread t.
Lookup(t, class, fallback) == IF registry[t] THEN class ELSE fallback

\* A mapper that sends Data errors to the catch-all class (the fault C11
\* excludes).
map_error_data_as_internal(t, kind) ==
    CASE kind = "Transaction" -> Lookup(t, "TransactionError", "RuntimeError")
      [] kind = "Closed"      -> Lookup(t, "ClosedError", "RuntimeError")
      [] kind = "Unavailable" -> Lookup(t, "UnavailableError", "RuntimeError")
      [] kind = "Invalid"     -> Lookup(t, "InvalidArgumentError", "ArgumentError")
      [] OTHER                -> Lookup(t, "InternalError", "RuntimeError")

map_error(t, kind) ==
    CASE kind = "Transaction" -> Lookup(t, "TransactionError", "RuntimeError")
      [] kind = "Closed"      -> Lookup(t, "ClosedError", "RuntimeError")
      [] kind = "Unavailable" -> Lookup(t, "UnavailableError", "RuntimeError")
      [] kind = "Invalid"     -> Lookup(t, "InvalidArgumentError", "ArgumentError")
      [] kind = "Data"        -> Lookup(t, "DataError", "RuntimeError")
      [] kind = "Internal"    -> Lookup(t, "InternalError", "RuntimeError")
      [] OTHER                -> Lookup(t, "InternalError", "RuntimeError")

\* A constructor that falls back to the generic class (the fault C36, as
\* amended, excludes).
invalid_argument_error_generic(t) ==
    Lookup(t, "InvalidArgumentError", "RuntimeError")

invalid_argument_error(t) == Lookup(t, "InvalidArgumentError", "ArgumentError")

internal_error(t) == Lookup(t, "InternalError", "RuntimeError")

closed_error(t) == Lookup(t, "ClosedError", "RuntimeError")

\* ------------------------------------------------------------------ utils.rs
\* get_optional::<T>: an absent or nil entry is None; a present entry is
\* converted by T::try_convert, whose failure is the conversion's own host
\* exception.  bool converts every value by truthiness; u64 rejects a negative
\* integer (RangeError) and a non-integer (TypeError).
None == [some |-> FALSE, err |-> "none", v |-> 0]
Some(x) == [some |-> TRUE, err |-> "none", v |-> x]
ConvErr(class) == [some |-> FALSE, err |-> class, v |-> 0]

BoolOptionValues == {Absent, Nil, "true", "false", BadValue}
U64OptionValues == {Absent, Nil, "5", "-1", BadValue}

get_optional_bool(v) ==
    IF v \in {Absent, Nil} THEN None
    ELSE IF v = "false" THEN Some(0) ELSE Some(1)

get_optional_u64(v) ==
    CASE v \in {Absent, Nil} -> None
      [] v = "5"  -> Some(5)
      [] v = "7"  -> Some(7)
      [] v = "-1" -> ConvErr("RangeError")
      [] OTHER    -> ConvErr("TypeError")

\* Option<bool>::unwrap_or(true)
unwrap_or_true(o) == IF o.some THEN o.v = 1 ELSE TRUE

get_optional_string(v) ==
    CASE v \in {Absent, Nil} -> None
      [] v = BadValue -> ConvErr("TypeError")
      [] OTHER -> Some(v)

\* The kwargs hash of a with-options call: one entry per recognised key.
NoKwargs == [durability_filter |-> Absent, dirty |-> Absent,
             read_ahead_bytes |-> Absent, cache_blocks |-> Absent,
             max_fetch_tasks |-> Absent]

ReadKwargs ==
    {NoKwargs}
    \cup {[NoKwargs EXCEPT !.durability_filter = v] :
            v \in {Nil, "remote", "memory", "invalid", BadValue}}
    \cup {[NoKwargs EXCEPT !.dirty = v] : v \in {"true", BadValue}}

ScanKwargs ==
    ReadKwargs
    \cup {[NoKwargs EXCEPT !.read_ahead_bytes = v] : v \in {"5", "-1"}}
    \cup {[NoKwargs EXCEPT !.cache_blocks = v] : v \in {"false"}}
    \cup {[NoKwargs EXCEPT !.max_fetch_tasks = v] : v \in {"5", BadValue}}

\* The durability_filter and dirty entries, as every get_with_options and
\* scan_with_options parses them: "ok", or the class of the raised exception.
ParseReadOptions(t, kw) ==
    LET df == get_optional_string(kw.durability_filter) IN
    IF df.err # "none" THEN df.err
    ELSE IF df.some /\ df.v \notin {"remote", "memory"}
         THEN invalid_argument_error(t)
    ELSE "ok"

\* The entries scan_with_options parses after those of ParseReadOptions.
ParseScanOptions(t, kw) ==
    LET r == ParseReadOptions(t, kw)
        rab == get_optional_u64(kw.read_ahead_bytes)
        mft == get_optional_u64(kw.max_fetch_tasks)
    IN
    IF r # "ok" THEN r
    ELSE IF rab.err # "none" THEN rab.err
    ELSE IF mft.err # "none" THEN mft.err
    ELSE "ok"

\* ------------------------------------------------------------------ handle state
TxnIds == 1..NumThreads
Unset == "unset"
EmptyStore == [k \in NonEmptyKeys |-> NoValue]

\* Option<String>: <<>> is None, <<k>> is Some(k).
NoEnd == <<>>
EndKeys == {NoEnd} \cup {<<k>> : k \in Keys}

\* Byte strings in lexicographic order.
RECURSIVE KeyLess(_, _)
KeyLess(a, b) ==
    IF b = <<>> THEN FALSE
    ELSE IF a = <<>> THEN TRUE
    ELSE IF Head(a) # Head(b) THEN Head(a) < Head(b)
    ELSE KeyLess(Tail(a), Tail(b))
KeyLeq(a, b) == a = b \/ KeyLess(a, b)

\* start..end or start.. contains k
InRange(k, start, end) ==
    KeyLeq(start, k) /\ (end = NoEnd \/ KeyLess(k, end[1]))

\* The keys of a set in ascending order.
RECURSIVE SortKeys(_)
SortKeys(S) ==
    IF S = {} THEN <<>>
    ELSE LET m == CHOOSE x \in S : \A y \in S : KeyLeq(x, y)
         IN <<m>> \o SortKeys(S \ {m})

\* A handle that no host object refers to yet is "absent"; a RefCell<Option<..>>
\* is "Some" or "None" and counts its live shared borrows.
NoSnap == [inner |-> "absent", view |-> EmptyStore, borrows |-> 0]
NoTxn == [inner |-> "absent", iso |-> "Snapshot", base |-> EmptyStore,
          writes |-> [k \in NonEmptyKeys |-> Unset], reads |-> {},
          dirty |-> {}, borrows |-> 0, live |-> FALSE, fate |-> "none"]
NoIter == [inner |-> "absent", items |-> <<>>, view |-> EmptyStore, pos |-> 1,
           start |-> EmptyKey, end |-> NoEnd, lastKey |-> EmptyKey,
           lock |-> NoThread, closed |-> FALSE, sought |-> EmptyKey]

\* Iterator::new over the cursor the engine returned; the model follows the
\* first Iterator object that is created.
NewIter(c) ==
    IF iter.inner = "absent"
    THEN [inner |-> "Some", items |-> c.data, view |-> c.view, pos |-> 1,
          start |-> c.key, end |-> c.end, lastKey |-> EmptyKey,
          lock |-> NoThread, closed |-> FALSE, sought |-> EmptyKey]
    ELSE iter

\* The engine object behind the Database or the Reader has been closed.
EngineClosed(h) == db[h] \in {"closing", "closed"}

\* Db::resolve_object_store, the engine's own resolver, called by
\* Database::open and Admin::new: the strategy that builds the store of a URL.
Db_resolve_object_store(url) == IF url = "none" THEN "none" ELSE "engine"

\* ------------------------------------------------------------------ records
\* Option<String> url: absent, one the resolver accepts, one it rejects.
NoUrl == "none"
Urls == {NoUrl, "memory:///", "bad"}

NoRes == [status |-> "pending", kind |-> "none", value |-> NoValue]
OkRes(v) == [status |-> "ok", kind |-> "none", value |-> v]
ErrRes(k) == [status |-> "err", kind |-> k, value |-> NoValue]

NoCall == [op |-> "none", h |-> 0, key |-> EmptyKey, end |-> <<>>,
           data |-> <<>>, view |-> EmptyStore, opt |-> 0, from |-> 0,
           wasClosed |-> FALSE, url |-> NoUrl,
           res |-> NoRes, rt |-> 0, engine |-> 0, class |-> "none",
           args |-> <<>>]

NewCall(op, h, key, data) ==
    [op |-> op, h |-> h, key |-> key, end |-> <<>>,
     data |-> data, view |-> EmptyStore, opt |-> 0, from |-> 0,
     wasClosed |-> FALSE, url |-> NoUrl,
     res |-> NoRes, rt |-> 0, engine |-> 0, class |-> "none",
     args |-> <<>>]

NoLast == [op |-> "none", h |-> 0, key |-> EmptyKey, status |-> "none",
           kind |-> "none",
           class |-> "none", value |-> NoValue, engine |-> 0, bridge |-> 0,
           wasClosed |-> FALSE, wellFormed |-> TRUE, args |-> <<>>]

\* The result of a call that returned without reaching the bridge.
Local(t, op, h, status, class, value, wasClosed, wellFormed) ==
    [op |-> op, h |-> h, key |-> EmptyKey, status |-> status, kind |-> "none",
     class |-> class,
     value |-> value, engine |-> 0, bridge |-> 0,
     wasClosed |-> wasClosed, wellFormed |-> wellFormed, args |-> <<>>]

\* ------------------------------------------------------------------ host lock
\* A thread in host code runs when it holds the lock, or takes it when it is
\* free or its holder is between two method calls.
CanRun(t) == IF gvl = NoThread THEN TRUE ELSE (gvl = t \/ pc[gvl] = "ruby")
Running(t) == pc[t] = "ruby" /\ CanRun(t)

\* ------------------------------------------------------------------ runtime.rs
\* A cell that runs the builder on every call (the fault C10 excludes).
get_runtime_rebuild == [cell |-> builds + 1, builds |-> builds + 1]

\* RUNTIME.get_or_init: the builder runs only on an empty cell.
get_runtime ==
    IF RUNTIME = 0
    THEN [cell |-> builds + 1, builds |-> builds + 1]
    ELSE [cell |-> RUNTIME, builds |-> builds]

\* A bridge that blocks with the lock still held (the fault C8 excludes).
without_gvl_held(t) ==
    /\ gvl' = t
    /\ pc' = [pc EXCEPT ![t] = "blocked"]

\* rb_thread_call_without_gvl: the lock is released, the closure runs on the
\* calling native thread.
without_gvl(t) ==
    /\ gvl' = NoThread
    /\ pc' = [pc EXCEPT ![t] = "blocked"]

\* block_on: get_runtime() under the lock, then the future runs off the lock.
block_on(t, c) ==
    /\ RUNTIME' = get_runtime.cell
    /\ builds' = get_runtime.builds
    /\ without_gvl(t)
    /\ call' = [call EXCEPT ![t] = [c EXCEPT !.rt = get_runtime.cell]]
    /\ last' = NoLast

\* A method returns without reaching the bridge.
ReturnLocal(t, r) ==
    /\ gvl' = t
    /\ last' = r
    /\ UNCHANGED <<pc, call, RUNTIME, builds>>

\* An unblock function that abandons the call (the fault C30 excludes).
unblock_function_abort == "abort"

\* The unblock function handed to rb_thread_call_without_gvl: none.
unblock_function == "None"

\* Host thread t interrupts thread u (raise, kill) while u is in the bridge:
\* the host marks the interrupt and calls u's unblock function, if it has
\* one; without one the call goes on and the interrupt waits for its return.
Thread_interrupt(t, u) ==
    /\ Running(t)
    /\ u # t
    /\ pc[u] \in {"blocked", "locked"}
    /\ gvl' = t
    /\ last' = Local(t, "Thread.interrupt", u, "ok", "none", NoValue, FALSE, TRUE)
    /\ IF unblock_function = "None"
       THEN UNCHANGED <<pc, call>>
       ELSE /\ pc' = [pc EXCEPT ![u] = "resolved"]
            /\ call' = [call EXCEPT ![u].res = [status |-> "err",
                                                kind |-> "Interrupted",
                                                value |-> NoValue]]
    /\ UNCHANGED <<RUNTIME, builds>>
    /\ UNCHANGED <<registry, written, batch, log, takenLog, handed, store, db,
                   snap, txn, iter>>

\* A panic inside a method (RefCell already borrowed) surfaces as the host's
\* fatal exception; nothing the method would have done after it happens.
Panicked(t, op, h, wasClosed) ==
    Local(t, op, h, "panic", "fatal", NoValue, wasClosed, TRUE)

SnapshotBridgeOps == {"Snapshot.get", "Snapshot.get_with_options",
                      "Snapshot.scan", "Snapshot.scan_with_options"}
TxnBridgeReadOps == {"Transaction.get", "Transaction.get_with_options",
                     "Transaction.scan", "Transaction.scan_with_options"}
ScanOps == {"Database.scan", "Database.scan_with_options",
            "Reader.scan", "Reader.scan_with_options",
            "Snapshot.scan", "Snapshot.scan_with_options",
            "Transaction.scan", "Transaction.scan_with_options"}

DbWriteOps == {"Database.put", "Database.put_with_options", "Database.delete"}

\* The Admin methods that wrap the engine's error themselves (block_on and
\* map_err to exception_runtime_error) instead of going through map_error.
AdminDirectOps == {"Admin.read_manifest", "Admin.list_manifests",
                   "Admin.list_checkpoints", "Admin.run_gc"}

\* What the rest of a method does to the handles once the bridge call is
\* back: the RefCell guard of a Snapshot or Transaction read goes out of scope,
\* and the handle a successful call returns is constructed (Snapshot::new,
\* Transaction::new, Iterator::new).
HandlerTail(t) ==
    LET c == call[t]
        ok == c.res.status = "ok"
    IN
    /\ snap' = IF c.op \in SnapshotBridgeOps
               THEN [snap EXCEPT !.borrows = @ - 1]
               ELSE IF c.op = "Database.snapshot" /\ ok
               THEN [snap EXCEPT !.inner = "Some"]
               ELSE snap
    /\ txn' = IF c.op \in TxnBridgeReadOps
              THEN [txn EXCEPT ![c.h].borrows = @ - 1]
              ELSE IF c.op = "Database.begin_transaction" /\ ok
              THEN [txn EXCEPT ![c.h].inner = "Some"]
              ELSE txn
    /\ iter' = IF c.op \in ScanOps /\ ok THEN NewIter(c)
               ELSE IF c.op = "Iterator.close" THEN [iter EXCEPT !.closed = TRUE]
               ELSE iter
    /\ db' = IF c.op = "Database.open" /\ ok /\ db.Database = "absent"
             THEN [db EXCEPT !.Database = "open"]
             ELSE IF c.op = "Reader.open" /\ ok /\ db.Reader = "absent"
             THEN [db EXCEPT !.Reader = "open"]
             ELSE IF c.op = "Admin.new" /\ ok /\ db.Admin = "absent"
             THEN [db EXCEPT !.Admin = "open"]
             ELSE IF c.op = "Database.close" /\ ok /\ db.Database = "closing"
             THEN [db EXCEPT !.Database = "closed"]
             ELSE IF c.op = "Reader.close" /\ ok /\ db.Reader = "closing"
             THEN [db EXCEPT !.Reader = "closed"]
             ELSE db

\* An end bound that is given and empty is a malformed key.
EndOk(end) == end = NoEnd \/ end[1] # EmptyKey

\* The bridge call returns: the lock is taken again, then the rest of the
\* method runs (error conversion, result conversion).  An error already
\* converted inside the future keeps the class computed there.
BridgeReturn(t) ==
    /\ pc[t] = "resolved"
    /\ CanRun(t)
    /\ gvl' = t
    /\ pc' = [pc EXCEPT ![t] = "ruby"]
    /\ last' = [op |-> call[t].op, h |-> call[t].h, key |-> call[t].key,
                status |-> call[t].res.status,
                kind |-> call[t].res.kind,
                class |-> IF call[t].res.status = "ok" THEN "none"
                          ELSE IF call[t].class # "none" THEN call[t].class
                          ELSE IF call[t].res.kind = "IteratorClosed"
                               THEN internal_error(t)
                          ELSE IF call[t].op \in AdminDirectOps
                               THEN "RuntimeError"
                          ELSE map_error(t, call[t].res.kind),
                value |-> call[t].res.value,
                engine |-> call[t].engine, bridge |-> 1,
                wasClosed |-> call[t].wasClosed,
                wellFormed |-> EndOk(call[t].end), args |-> call[t].args]
    /\ call' = [call EXCEPT ![t] = NoCall]
    /\ HandlerTail(t)
    /\ written' = IF call[t].op \in DbWriteOps /\ written[call[t].key] = Pending
                  THEN [written EXCEPT ![call[t].key] =
                          IF call[t].res.status = "ok" THEN call[t].data[1]
                          ELSE Unknown]
                  ELSE written
    /\ UNCHANGED <<RUNTIME, builds, registry, batch, log,
                   takenLog, handed, store>>

\* The future of call[t] resolves with res after n engine calls.
Resolve(t, res, n) ==
    /\ pc' = [pc EXCEPT ![t] = "resolved"]
    /\ call' = [call EXCEPT ![t].res = res, ![t].engine = @ + n]
    /\ last' = NoLast
    /\ UNCHANGED <<gvl, RUNTIME, builds>>

\* A future that calls map_error itself: the exception class is looked up by
\* host code on a thread that does not hold the lock.
ResolveOffLock(t, kind, n) ==
    /\ pc' = [pc EXCEPT ![t] = "resolved"]
    /\ call' = [call EXCEPT ![t].res = ErrRes(kind), ![t].engine = @ + n,
                            ![t].class = map_error(t, kind)]
    /\ last' = NoLast
    /\ UNCHANGED <<gvl, RUNTIME, builds>>

\* ------------------------------------------------------------------ write_batch.rs
\* ttl 0 is Ttl::Default, ms > 0 is Ttl::ExpireAfter(ms).
PutOp(id, key, value, ttl) ==
    [id |-> id, kind |-> "put", key |-> key, val |-> value, ttl |-> ttl]
DeleteOp(id, key) ==
    [id |-> id, kind |-> "delete", key |-> key, val |-> NoValue, ttl |-> 0]

\* The batch gets one more operation.
BatchAppend(op) ==
    /\ batch' = Append(batch, op)
    /\ log' = Append(log, op)
    /\ UNCHANGED <<takenLog, handed>>

WriteBatch_put(t, key, value) ==
    /\ Running(t)
    /\ IF key = EmptyKey
       THEN /\ ReturnLocal(t, Local(t, "WriteBatch.put", 0, "err",
                                    invalid_argument_error(t), NoValue, FALSE, FALSE))
            /\ UNCHANGED batchVars
       ELSE /\ Len(log) < MaxAppends
            /\ BatchAppend(PutOp(Len(log) + 1, key, value, 0))
            /\ ReturnLocal(t, Local(t, "WriteBatch.put", 0, "ok", "none",
                                    NoValue, FALSE, TRUE))
    /\ UNCHANGED <<registry, written, store, db, snap, txn, iter>>

WriteBatch_put_with_options(t, key, value, ttlv) ==
    /\ Running(t)
    /\ LET ttl == get_optional_u64(ttlv) IN
       IF key = EmptyKey
       THEN /\ ReturnLocal(t, Local(t, "WriteBatch.put_with_options", 0, "err",
                                    invalid_argument_error(t), NoValue, FALSE, FALSE))
            /\ UNCHANGED batchVars
       ELSE IF ttl.err # "none"
       THEN /\ ReturnLocal(t, Local(t, "WriteBatch.put_with_options", 0, "err",
                                    ttl.err, NoValue, FALSE, FALSE))
            /\ UNCHANGED batchVars
       ELSE /\ Len(log) < MaxAppends
            /\ BatchAppend(PutOp(Len(log) + 1, key, value,
                                 IF ttl.some THEN ttl.v ELSE 0))
            /\ ReturnLocal(t, Local(t, "WriteBatch.put_with_options", 0, "ok",
                                    "none", NoValue, FALSE, TRUE))
    /\ UNCHANGED <<registry, written, store, db, snap, txn, iter>>

WriteBatch_delete(t, key) ==
    /\ Running(t)
    /\ IF key = EmptyKey
       THEN /\ ReturnLocal(t, Local(t, "WriteBatch.delete", 0, "err",
                                    invalid_argument_error(t), NoValue, FALSE, FALSE))
            /\ UNCHANGED batchVars
       ELSE /\ Len(log) < MaxAppends
            /\ BatchAppend(DeleteOp(Len(log) + 1, key))
            /\ ReturnLocal(t, Local(t, "WriteBatch.delete", 0, "ok", "none",
                                    NoValue, FALSE, TRUE))
    /\ UNCHANGED <<registry, written, store, db, snap, txn, iter>>

\* A take that drops what it removed (the fault C6 excludes).
take_lose(b) == [ret |-> <<>>, inner |-> <<>>]

\* A take that hands out a copy and leaves the batch as it was (the fault C7
\* excludes).
take_clone(b) == [ret |-> b, inner |-> b]

\* RefCell::replace(new): the previous contents are returned, a fresh empty
\* batch is left behind.
take(b) == [ret |-> b, inner |-> <<>>]

\* ------------------------------------------------------------------ database.rs: write
Database_write(t) ==
    /\ Running(t)
    /\ db.Database # "absent"
    /\ LET batch_inner == take(batch) IN
       /\ batch' = batch_inner.inner
       /\ takenLog' = takenLog \o batch_inner.ret
       /\ block_on(t, [NewCall("Database.write", 0, EmptyKey, batch_inner.ret)
                         EXCEPT !.from = Len(takenLog)])
    /\ UNCHANGED <<log, handed, registry, written, store, db,
                   snap, txn, iter>>

\* The only option is await_durable, a bool: no value of it is rejected.
Database_write_with_options(t, await_durable) ==
    /\ Running(t)
    /\ db.Database # "absent"
    /\ LET write_opts == unwrap_or_true(get_optional_bool(await_durable))
           batch_inner == take(batch)
       IN
       /\ batch' = batch_inner.inner
       /\ takenLog' = takenLog \o batch_inner.ret
       /\ block_on(t, [NewCall("Database.write_with_options", 0, EmptyKey,
                               batch_inner.ret) EXCEPT !.opt = IF write_opts THEN 1 ELSE 0,
                                                !.from = Len(takenLog),
                                                !.args = <<await_durable>>])
    /\ UNCHANGED <<log, handed, registry, written, store, db,
                   snap, txn, iter>>

\* The engine applies a batch in order.
RECURSIVE ApplyOps(_, _)
ApplyOps(st, ops) ==
    IF ops = <<>> THEN st
    ELSE ApplyOps([st EXCEPT ![Head(ops).key] = Head(ops).val], Tail(ops))

OpIds(ops) == {ops[i].id : i \in 1..Len(ops)}

\* The future of write / write_with_options: one engine call that receives the
\* taken batch and either applies it or fails.
\* A write that lands from a batch or a commit: the keys it changes have no
\* settled value any more.
Overwritten(new) ==
    [k \in NonEmptyKeys |-> IF new[k] = store[k] THEN written[k] ELSE Unknown]

\* A write that puts the operations back into the batch when the engine
\* fails (the fault C38 excludes).
Future_write_restoring(t) ==
    /\ pc[t] = "blocked"
    /\ call[t].op \in {"Database.write", "Database.write_with_options"}
    /\ handed' = [i \in DOMAIN handed |->
                    IF i \in OpIds(call[t].data) THEN handed[i] + 1 ELSE handed[i]]
    /\ \/ /\ db.Database = "open"
          /\ store' = ApplyOps(store, call[t].data)
          /\ batch' = batch
          /\ Resolve(t, OkRes(NoValue), 1)
       \/ /\ store' = store
          /\ batch' = call[t].data \o batch
          /\ Resolve(t, ErrRes(IF EngineClosed("Database") THEN "Closed" ELSE "Unavailable"), 1)
    /\ written' = Overwritten(store')
    /\ UNCHANGED <<log, takenLog, registry, db, snap, txn, iter>>

Future_write(t) ==
    /\ pc[t] = "blocked"
    /\ call[t].op \in {"Database.write", "Database.write_with_options"}
    /\ handed' = [i \in DOMAIN handed |->
                    IF i \in OpIds(call[t].data) THEN handed[i] + 1 ELSE handed[i]]
    /\ \/ /\ db.Database = "open"
          /\ store' = ApplyOps(store, call[t].data)
          /\ Resolve(t, OkRes(NoValue), 1)
       \/ /\ store' = store
          /\ Resolve(t, ErrRes(IF EngineClosed("Database") THEN "Closed" ELSE "Unavailable"), 1)
    /\ written' = Overwritten(store')
    /\ UNCHANGED <<batch, log, takenLog, registry, db, snap, txn, iter>>

\* ------------------------------------------------------------------ snapshot.rs
\* A method returns an error it built under the lock.
Fail(t, op, h, class, wasClosed, wellFormed) ==
    ReturnLocal(t, Local(t, op, h, "err", class, NoValue, wasClosed, wellFormed))

\* The common shape of Snapshot get / get_with_options / scan /
\* scan_with_options: the key check, the options, then the RefCell guard,
\* which is held until the method returns.
SnapshotRead(t, op, key, end, opts) ==
    /\ Running(t)
    /\ snap.inner \in {"Some", "None"}
    /\ IF key = EmptyKey
       THEN /\ Fail(t, op, 0, invalid_argument_error(t), snap.inner = "None", FALSE)
            /\ UNCHANGED snap
       ELSE IF opts # "ok"
       THEN /\ Fail(t, op, 0, opts, snap.inner = "None", FALSE)
            /\ UNCHANGED snap
       ELSE IF snap.inner = "None"
       THEN /\ Fail(t, op, 0, closed_error(t), TRUE, EndOk(end))
            /\ UNCHANGED snap
       ELSE /\ snap' = [snap EXCEPT !.borrows = @ + 1]
            /\ block_on(t, [NewCall(op, 0, key, <<>>) EXCEPT !.end = end])
    /\ UNCHANGED <<registry, written, batch, log, takenLog, handed, store, db,
                   txn, iter>>

Snapshot_get(t, key) ==
    SnapshotRead(t, "Snapshot.get", key, NoEnd, "ok")

Snapshot_get_with_options(t, key, kw) ==
    SnapshotRead(t, "Snapshot.get_with_options", key, NoEnd, ParseReadOptions(t, kw))

Snapshot_scan(t, start, end) ==
    SnapshotRead(t, "Snapshot.scan", start, end, "ok")

Snapshot_scan_with_options(t, start, end, kw) ==
    SnapshotRead(t, "Snapshot.scan_with_options", start, end, ParseScanOptions(t, kw))

\* inner.borrow_mut().take(): panics while a read of this handle holds its guard.
Snapshot_close(t) ==
    /\ Running(t)
    /\ snap.inner \in {"Some", "None"}
    /\ IF snap.borrows > 0
       THEN /\ ReturnLocal(t, Panicked(t, "Snapshot.close", 0, snap.inner = "None"))
            /\ UNCHANGED snap
       ELSE /\ snap' = [snap EXCEPT !.inner = "None"]
            /\ ReturnLocal(t, Local(t, "Snapshot.close", 0, "ok", "none", NoValue,
                                    snap.inner = "None", TRUE))
    /\ UNCHANGED <<registry, written, batch, log, takenLog, handed, store, db,
                   txn, iter>>

\* A query that takes the snapshot out of the handle (the fault C37
\* excludes).
Snapshot_is_closed_taking(t) ==
    /\ Running(t)
    /\ snap.inner \in {"Some", "None"}
    /\ snap.borrows = 0
    /\ snap' = [snap EXCEPT !.inner = "None"]
    /\ ReturnLocal(t, Local(t, "Snapshot.is_closed", 0, "ok", "none",
                            IF snap.inner = "None" THEN "true" ELSE "false",
                            snap.inner = "None", TRUE))
    /\ UNCHANGED <<registry, written, batch, log, takenLog, handed, store, db,
                   txn, iter>>

Snapshot_is_closed(t) ==
    /\ Running(t)
    /\ snap.inner \in {"Some", "None"}
    /\ ReturnLocal(t, Local(t, "Snapshot.is_closed", 0, "ok", "none",
                            IF snap.inner = "None" THEN "true" ELSE "false",
                            snap.inner = "None", TRUE))
    /\ UNCHANGED <<registry, written, batch, log, takenLog, handed, store, db,
                   snap, txn, iter>>

\* A cursor that runs past the end bound (the fault C21 excludes).
RangeItems_unbounded(view, start, end) ==
    SortKeys({k \in NonEmptyKeys : view[k] # NoValue /\ KeyLeq(start, k)})

\* The pairs of a view inside a range, in key order: what a cursor yields.
RangeItems(view, start, end) ==
    SortKeys({k \in NonEmptyKeys : view[k] # NoValue /\ InRange(k, start, end)})

\* The future of Snapshot get / get_with_options: one engine read of the view.
Future_snapshot_get(t) ==
    /\ pc[t] = "blocked"
    /\ call[t].op \in {"Snapshot.get", "Snapshot.get_with_options"}
    /\ \/ Resolve(t, OkRes(snap.view[call[t].key]), 1)
       \/ Resolve(t, ErrRes(IF EngineClosed("Database") THEN "Closed"
                            ELSE "Unavailable"), 1)
    /\ UNCHANGED <<registry, written, batch, log, takenLog, handed, store, db,
                   snap, txn, iter>>

\* The future of Snapshot scan / scan_with_options: one engine call that opens
\* a cursor, and, inside the future, map_error on its error.
Future_snapshot_scan(t) ==
    /\ pc[t] = "blocked"
    /\ call[t].op \in {"Snapshot.scan", "Snapshot.scan_with_options"}
    /\ \/ /\ pc' = [pc EXCEPT ![t] = "resolved"]
          /\ call' = [call EXCEPT ![t].res = OkRes("iterator"),
                                  ![t].engine = @ + 1,
                                  ![t].view = snap.view,
                                  ![t].data = RangeItems(snap.view, call[t].key,
                                                         call[t].end)]
          /\ last' = NoLast
          /\ UNCHANGED <<gvl, RUNTIME, builds>>
       \/ ResolveOffLock(t, "Unavailable", 1)
    /\ UNCHANGED <<registry, written, batch, log, takenLog, handed, store, db,
                   snap, txn, iter>>

\* ------------------------------------------------------------------ database.rs: snapshot
InFlight(op) == {t \in Threads : call[t].op = op /\ pc[t] = "blocked"}

Database_snapshot(t) ==
    /\ Running(t)
    /\ db.Database # "absent"
    /\ snap.inner = "absent"
    /\ InFlight("Database.snapshot") = {}
    /\ block_on(t, NewCall("Database.snapshot", 0, EmptyKey, <<>>))
    /\ UNCHANGED <<registry, written, batch, log, takenLog, handed,
                   store, db, snap, txn, iter>>

\* The future of snapshot(): the engine fixes a view of the store.
Future_snapshot(t) ==
    /\ pc[t] = "blocked"
    /\ call[t].op = "Database.snapshot"
    /\ \/ /\ db.Database = "open"
          /\ snap' = [inner |-> "unborn", view |-> store, borrows |-> 0]
          /\ Resolve(t, OkRes("snapshot"), 1)
       \/ /\ snap' = snap
          /\ Resolve(t, ErrRes(IF EngineClosed("Database") THEN "Closed" ELSE "Unavailable"), 1)
    /\ UNCHANGED <<registry, written, batch, log, takenLog, handed, store, db,
                   txn, iter>>

\* ------------------------------------------------------------------ transaction.rs
WrittenKeys(x) == {k \in NonEmptyKeys : x.writes[k] # Unset}

\* A read that layers the buffered writes over the store as it is now (the
\* fault C28 excludes).
TxnView_latest(x) ==
    [k \in NonEmptyKeys |-> IF x.writes[k] # Unset THEN x.writes[k] ELSE store[k]]

\* What a read inside the transaction sees: its own writes over its base view.
TxnView(x) ==
    [k \in NonEmptyKeys |-> IF x.writes[k] # Unset THEN x.writes[k] ELSE x.base[k]]

\* The common shape of Transaction get / get_with_options / scan /
\* scan_with_options: the key check, the options, then the RefCell guard,
\* which is held until the method returns.
TransactionRead(t, i, op, key, end, opts) ==
    /\ Running(t)
    /\ txn[i].inner \in {"Some", "None"}
    /\ IF key = EmptyKey
       THEN /\ Fail(t, op, i, invalid_argument_error(t), txn[i].inner = "None", FALSE)
            /\ UNCHANGED txn
       ELSE IF opts # "ok"
       THEN /\ Fail(t, op, i, opts, txn[i].inner = "None", FALSE)
            /\ UNCHANGED txn
       ELSE IF txn[i].inner = "None"
       THEN /\ Fail(t, op, i, closed_error(t), TRUE, EndOk(end))
            /\ UNCHANGED txn
       ELSE /\ txn' = [txn EXCEPT ![i].borrows = @ + 1]
            /\ block_on(t, [NewCall(op, i, key, <<>>) EXCEPT !.end = end])
    /\ UNCHANGED <<registry, written, batch, log, takenLog, handed, store, db,
                   snap, iter>>

Transaction_get(t, i, key) ==
    TransactionRead(t, i, "Transaction.get", key, NoEnd, "ok")

Transaction_get_with_options(t, i, key, kw) ==
    TransactionRead(t, i, "Transaction.get_with_options", key, NoEnd,
                    ParseReadOptions(t, kw))

Transaction_scan(t, i, start, end) ==
    TransactionRead(t, i, "Transaction.scan", start, end, "ok")

Transaction_scan_with_options(t, i, start, end, kw) ==
    TransactionRead(t, i, "Transaction.scan_with_options", start, end,
                    ParseScanOptions(t, kw))

\* A write that goes straight to the store (the fault C27 excludes).
TransactionWrite_through(t, i, op, key, value, opts) ==
    /\ Running(t)
    /\ txn[i].inner = "Some"
    /\ key # EmptyKey /\ opts = "ok"
    /\ store' = [store EXCEPT ![key] = value]
    /\ ReturnLocal(t, [Local(t, op, i, "ok", "none", NoValue, FALSE, TRUE)
                         EXCEPT !.engine = 1])
    /\ UNCHANGED <<registry, written, batch, log, takenLog, handed, db,
                   snap, txn, iter>>

\* The common shape of Transaction put / put_with_options / delete: the key
\* check, the options, the RefCell guard, then the engine's buffered write,
\* which needs no bridge call.
TransactionWrite(t, i, op, key, value, opts) ==
    /\ Running(t)
    /\ txn[i].inner \in {"Some", "None"}
    /\ IF key = EmptyKey
       THEN /\ Fail(t, op, i, invalid_argument_error(t), txn[i].inner = "None", FALSE)
            /\ UNCHANGED txn
       ELSE IF opts # "ok"
       THEN /\ Fail(t, op, i, opts, txn[i].inner = "None", FALSE)
            /\ UNCHANGED txn
       ELSE IF txn[i].inner = "None"
       THEN /\ Fail(t, op, i, closed_error(t), TRUE, TRUE)
            /\ UNCHANGED txn
       ELSE /\ Cardinality(WrittenKeys(txn[i]) \cup {key}) <= MaxTxnWrites
            /\ txn' = [txn EXCEPT ![i].writes[key] = value]
            /\ ReturnLocal(t, [Local(t, op, i, "ok", "none", NoValue, FALSE, TRUE)
                                 EXCEPT !.engine = 1])
    /\ UNCHANGED <<registry, written, batch, log, takenLog, handed, store, db,
                   snap, iter>>

Transaction_put(t, i, key, value) ==
    TransactionWrite(t, i, "Transaction.put", key, value, "ok")

Transaction_put_with_options(t, i, key, value, ttlv) ==
    TransactionWrite(t, i, "Transaction.put_with_options", key, value,
                     IF get_optional_u64(ttlv).err # "none"
                     THEN get_optional_u64(ttlv).err ELSE "ok")

Transaction_delete(t, i, key) ==
    TransactionWrite(t, i, "Transaction.delete", key, NoValue, "ok")

\* The common shape of commit / commit_with_options after the options:
\* inner.borrow_mut().take() panics while a read of this handle holds its
\* guard; otherwise the transaction leaves the handle before the bridge call.
TransactionCommit(t, i, op, opt, args) ==
    /\ Running(t)
    /\ txn[i].inner \in {"Some", "None"}
    /\ IF txn[i].borrows > 0
       THEN /\ ReturnLocal(t, Panicked(t, op, i, txn[i].inner = "None"))
            /\ UNCHANGED txn
       ELSE IF txn[i].inner = "None"
       THEN /\ Fail(t, op, i, closed_error(t), TRUE, TRUE)
            /\ UNCHANGED txn
       ELSE /\ txn' = [txn EXCEPT ![i].inner = "None"]
            /\ block_on(t, [NewCall(op, i, EmptyKey, <<>>)
                              EXCEPT !.opt = opt, !.args = args])
    /\ UNCHANGED <<registry, written, batch, log, takenLog, handed, store, db,
                   snap, iter>>

Transaction_commit(t, i) ==
    TransactionCommit(t, i, "Transaction.commit", 1, <<>>)

\* The only option is await_durable, a bool: no value of it is rejected.
Transaction_commit_with_options(t, i, await_durable) ==
    TransactionCommit(t, i, "Transaction.commit_with_options",
                      IF unwrap_or_true(get_optional_bool(await_durable)) THEN 1 ELSE 0,
                      <<await_durable>>)

\* The transaction is dropped where it stands; no engine call.
Transaction_rollback(t, i) ==
    /\ Running(t)
    /\ txn[i].inner \in {"Some", "None"}
    /\ IF txn[i].borrows > 0
       THEN /\ ReturnLocal(t, Panicked(t, "Transaction.rollback", i,
                                       txn[i].inner = "None"))
            /\ UNCHANGED txn
       ELSE /\ txn' = [txn EXCEPT ![i] =
                          IF @.inner = "Some"
                          THEN [NoTxn EXCEPT !.inner = "None", !.iso = txn[i].iso,
                                             !.fate = "dropped"]
                          ELSE @]
            /\ ReturnLocal(t, Local(t, "Transaction.rollback", i, "ok", "none",
                                    NoValue, txn[i].inner = "None", TRUE))
    /\ UNCHANGED <<registry, written, batch, log, takenLog, handed, store, db,
                   snap, iter>>

Transaction_is_closed(t, i) ==
    /\ Running(t)
    /\ txn[i].inner \in {"Some", "None"}
    /\ ReturnLocal(t, Local(t, "Transaction.is_closed", i, "ok", "none",
                            IF txn[i].inner = "None" THEN "true" ELSE "false",
                            txn[i].inner = "None", TRUE))
    /\ UNCHANGED <<registry, written, batch, log, takenLog, handed, store, db,
                   snap, txn, iter>>

\* The future of Transaction get / get_with_options: one engine read.  A
\* serializable transaction remembers what it read.
Future_transaction_get(t) ==
    LET i == call[t].h IN
    /\ pc[t] = "blocked"
    /\ call[t].op \in {"Transaction.get", "Transaction.get_with_options"}
    /\ \/ /\ txn' = [txn EXCEPT ![i].reads =
                        IF txn[i].iso = "SerializableSnapshot"
                        THEN @ \cup {call[t].key} ELSE @]
          /\ Resolve(t, OkRes(TxnView(txn[i])[call[t].key]), 1)
       \/ /\ txn' = txn
          /\ Resolve(t, ErrRes("Unavailable"), 1)
    /\ UNCHANGED <<registry, written, batch, log, takenLog, handed, store, db,
                   snap, iter>>

\* The future of Transaction scan / scan_with_options: one engine call that
\* opens a cursor over the transaction's view.
Future_transaction_scan(t) ==
    LET i == call[t].h IN
    /\ pc[t] = "blocked"
    /\ call[t].op \in {"Transaction.scan", "Transaction.scan_with_options"}
    /\ \/ /\ txn' = [txn EXCEPT ![i].reads =
                        IF txn[i].iso = "SerializableSnapshot"
                        THEN @ \cup {k \in NonEmptyKeys :
                                       InRange(k, call[t].key, call[t].end)}
                        ELSE @]
          /\ pc' = [pc EXCEPT ![t] = "resolved"]
          /\ call' = [call EXCEPT ![t].res = OkRes("iterator"),
                                  ![t].engine = @ + 1,
                                  ![t].view = TxnView(txn[i]),
                                  ![t].data = RangeItems(TxnView(txn[i]),
                                                         call[t].key, call[t].end)]
          /\ last' = NoLast
          /\ UNCHANGED <<gvl, RUNTIME, builds>>
       \/ /\ txn' = txn
          /\ Resolve(t, ErrRes("Unavailable"), 1)
    /\ UNCHANGED <<registry, written, batch, log, takenLog, handed, store, db,
                   snap, iter>>

\* Keys committed to the store become visible as conflicts to every
\* transaction the engine still knows.
Publish(tx, keys, except) ==
    [j \in TxnIds |->
        IF j # except /\ tx[j].live
        THEN [tx[j] EXCEPT !.dirty = @ \cup keys] ELSE tx[j]]

\* The engine's conflict check at commit: a key this transaction wrote, or,
\* under serializable isolation, read, was committed by another writer since
\* the transaction began.
Conflict(x) ==
    \/ WrittenKeys(x) \cap x.dirty # {}
    \/ x.iso = "SerializableSnapshot" /\ x.reads \cap x.dirty # {}

\* The future of commit / commit_with_options: one engine call; whatever it
\* returns, the transaction it consumed is gone.
Future_commit(t) ==
    LET i == call[t].h
        x == txn[i]
        gone(fate) == [NoTxn EXCEPT !.inner = "None", !.iso = x.iso, !.fate = fate,
                                    !.writes = IF fate = "committed" THEN x.writes
                                               ELSE @,
                                    !.dirty = IF fate = "committed" THEN x.dirty
                                              ELSE @]
    IN
    /\ pc[t] = "blocked"
    /\ call[t].op \in {"Transaction.commit", "Transaction.commit_with_options"}
    /\ \/ /\ Conflict(x)
          /\ txn' = [txn EXCEPT ![i] = gone("conflict")]
          /\ store' = store
          /\ Resolve(t, ErrRes("Transaction"), 1)
       \/ /\ ~Conflict(x)
          /\ db.Database = "open"
          /\ txn' = Publish([txn EXCEPT ![i] = gone("committed")], WrittenKeys(x), i)
          /\ store' = [k \in NonEmptyKeys |->
                         IF x.writes[k] # Unset THEN x.writes[k] ELSE store[k]]
          /\ Resolve(t, OkRes(NoValue), 1)
       \/ /\ ~Conflict(x)
          /\ txn' = [txn EXCEPT ![i] = gone("failed")]
          /\ store' = store
          /\ Resolve(t, ErrRes(IF EngineClosed("Database") THEN "Closed" ELSE "Unavailable"), 1)
    /\ written' = Overwritten(store')
    /\ UNCHANGED <<registry, batch, log, takenLog, handed, db, snap, iter>>

\* ------------------------------------------------------------------ database.rs: begin_transaction
IsolationLiterals == {Absent, "snapshot", "si", "serializable", "ssi",
                      "serializable_snapshot", "bogus"}

\* The match of begin_transaction on the literal: a level, or "invalid".
isolation_level(lit) ==
    CASE lit \in {Absent, "snapshot", "si"} -> "Snapshot"
      [] lit \in {"serializable", "ssi", "serializable_snapshot"}
            -> "SerializableSnapshot"
      [] OTHER -> "invalid"

\* i names the Transaction object the call will return.
Database_begin_transaction(t, isolation, i) ==
    /\ Running(t)
    /\ db.Database # "absent"
    /\ IF isolation_level(isolation) = "invalid"
       THEN ReturnLocal(t, [Local(t, "Database.begin_transaction", 0, "err",
                                  invalid_argument_error(t), NoValue, FALSE, FALSE)
                               EXCEPT !.args = <<isolation>>])
       ELSE /\ txn[i].inner = "absent"
            /\ \A u \in Threads :
                  ~(call[u].op = "Database.begin_transaction" /\ call[u].h = i)
            /\ block_on(t, [NewCall("Database.begin_transaction", i, EmptyKey, <<>>)
                              EXCEPT !.opt = IF isolation_level(isolation) = "Snapshot"
                                             THEN 0 ELSE 1,
                                     !.args = <<isolation>>])
    /\ UNCHANGED <<registry, written, batch, log, takenLog, handed, store, db,
                   snap, txn, iter>>

\* The future of begin: the engine fixes the base view of a new transaction.
Future_begin(t) ==
    LET i == call[t].h IN
    /\ pc[t] = "blocked"
    /\ call[t].op = "Database.begin_transaction"
    /\ \/ /\ db.Database = "open"
          /\ txn' = [txn EXCEPT ![i] =
                       [NoTxn EXCEPT !.inner = "unborn", !.base = store,
                                     !.live = TRUE,
                                     !.iso = IF call[t].opt = 0 THEN "Snapshot"
                                             ELSE "SerializableSnapshot"]]
          /\ Resolve(t, OkRes("transaction"), 1)
       \/ /\ txn' = txn
          /\ Resolve(t, ErrRes(IF EngineClosed("Database") THEN "Closed" ELSE "Unavailable"), 1)
    /\ UNCHANGED <<registry, written, batch, log, takenLog, handed, store, db,
                   snap, iter>>

\* ------------------------------------------------------------------ initial state
\* The extension is loaded (lib.rs init ran on MainThread) and no handle
\* exists yet.
Init ==
    /\ gvl = MainThread
    /\ pc = [t \in Threads |-> "ruby"]
    /\ call = [t \in Threads |-> NoCall]
    /\ last = NoLast
    /\ registry = [t \in Threads |-> t = MainThread]
    /\ written = [k \in NonEmptyKeys |-> Unknown]
    /\ RUNTIME = 0
    /\ builds = 0
    /\ batch = <<>>
    /\ log = <<>>
    /\ takenLog = <<>>
    /\ handed = [i \in 1..MaxAppends |-> 0]
    /\ store = EmptyStore
    /\ db = [Database |-> "absent", Reader |-> "absent", Admin |-> "absent"]
    /\ snap = NoSnap
    /\ txn = [i \in TxnIds |-> NoTxn]
    /\ iter = NoIter

\* ------------------------------------------------------------------ database.rs
\* A method of an existing Database: the handle's engine object may have been
\* closed already, which the binding does not look at.
DbCall(op, key) ==
    [NewCall(op, 0, key, <<>>) EXCEPT !.wasClosed = db.Database = "closed"]

Database_open(t, url) ==
    /\ Running(t)
    /\ db.Database = "absent"
    /\ InFlight("Database.open") = {}
    /\ block_on(t, [NewCall("Database.open", 0, EmptyKey, <<>>)
                      EXCEPT !.url = url,
                             !.args = <<url, Db_resolve_object_store(url)>>])
    /\ UNCHANGED <<registry, written, batch, log, takenLog, handed, store, db,
                   snap, txn, iter>>

\* The future of open: the URL is resolved, then the engine builds the
\* database; both errors are converted inside the future.
Future_open(t) ==
    /\ pc[t] = "blocked"
    /\ call[t].op = "Database.open"
    /\ IF call[t].url = "bad"
       THEN ResolveOffLock(t, "Invalid", 0)
       ELSE \/ Resolve(t, OkRes("database"), 1)
            \/ ResolveOffLock(t, "Unavailable", 1)
    /\ UNCHANGED <<registry, written, batch, log, takenLog, handed, store, db, snap, txn,
                   iter>>

\* A Database method raises before the bridge; the call's key and options
\* are kept with its result.
DbFail(t, op, key, class, args) ==
    ReturnLocal(t, [Local(t, op, 0, "err", class, NoValue,
                          db.Database = "closed", FALSE)
                       EXCEPT !.key = key, !.args = args])

\* String::try_convert of a value argument: the host string is checked for
\* valid UTF-8 when the method is entered.
String_try_convert(v) == IF v = BinValue THEN ConvErr("EncodingError") ELSE Some(v)

\* A conversion that replaces every value (the fault C20 excludes).
from_utf8_replace_all(b) == IF b = NoValue THEN b ELSE Replacement

\* String::from_utf8_lossy: bytes that are not UTF-8 come back replaced.
from_utf8_lossy(b) == IF b = BinValue THEN Replacement ELSE b

\* A write call to key begins: its value settles when it returns, unless
\* another write to the key is in flight.
WriteBegins(t, key) ==
    [written EXCEPT ![key] =
        IF \E u \in Threads \ {t} :
              call[u].op \in DbWriteOps /\ call[u].key = key
        THEN Unknown ELSE Pending]

Database_get(t, key) ==
    /\ Running(t)
    /\ db.Database # "absent"
    /\ IF key = EmptyKey
       THEN Fail(t, "Database.get", 0, invalid_argument_error(t),
                 db.Database = "closed", FALSE)
       ELSE /\ block_on(t, DbCall("Database.get", key))
    /\ UNCHANGED <<registry, written, batch, log, takenLog, handed, store, db, snap, txn,
                   iter>>

Database_put(t, key, value) ==
    /\ Running(t)
    /\ db.Database # "absent"
    /\ IF String_try_convert(value).err # "none"
       THEN /\ DbFail(t, "Database.put", key, String_try_convert(value).err, <<>>)
            /\ UNCHANGED written
       ELSE IF key = EmptyKey
       THEN /\ Fail(t, "Database.put", 0, invalid_argument_error(t),
                    db.Database = "closed", FALSE)
            /\ UNCHANGED written
       ELSE /\ block_on(t, [DbCall("Database.put", key)
                              EXCEPT !.data = <<String_try_convert(value).v>>])
            /\ written' = WriteBegins(t, key)
    /\ UNCHANGED <<registry, batch, log, takenLog, handed, store, db, snap, txn,
                   iter>>

Database_delete(t, key) ==
    /\ Running(t)
    /\ db.Database # "absent"
    /\ IF key = EmptyKey
       THEN /\ Fail(t, "Database.delete", 0, invalid_argument_error(t),
                    db.Database = "closed", FALSE)
            /\ UNCHANGED written
       ELSE /\ block_on(t, [DbCall("Database.delete", key) EXCEPT !.data = <<NoValue>>])
            /\ written' = WriteBegins(t, key)
    /\ UNCHANGED <<registry, batch, log, takenLog, handed, store, db, snap, txn,
                   iter>>

Database_scan(t, start, end_key) ==
    /\ Running(t)
    /\ db.Database # "absent"
    /\ IF start = EmptyKey
       THEN Fail(t, "Database.scan", 0, invalid_argument_error(t),
                 db.Database = "closed", FALSE)
       ELSE /\ block_on(t, [DbCall("Database.scan", start) EXCEPT !.end = end_key])
    /\ UNCHANGED <<registry, written, batch, log, takenLog, handed, store, db, snap, txn,
                   iter>>

Database_get_with_options(t, key, kwargs) ==
    LET op == "Database.get_with_options" IN
    /\ Running(t)
    /\ db.Database # "absent"
    /\ IF key = EmptyKey
       THEN DbFail(t, op, key, invalid_argument_error(t), <<kwargs>>)
       ELSE IF ParseReadOptions(t, kwargs) # "ok"
       THEN DbFail(t, op, key, ParseReadOptions(t, kwargs), <<kwargs>>)
       ELSE block_on(t, [DbCall(op, key) EXCEPT !.args = <<kwargs>>])
    /\ UNCHANGED <<registry, written, batch, log, takenLog, handed, store, db, snap, txn,
                   iter>>

\* ttl is converted to u64, await_durable to bool (which accepts any value).
Database_put_with_options(t, key, value, ttl) ==
    LET op == "Database.put_with_options" IN
    /\ Running(t)
    /\ db.Database # "absent"
    /\ IF key = EmptyKey
       THEN /\ DbFail(t, op, key, invalid_argument_error(t), <<ttl>>)
            /\ UNCHANGED written
       ELSE IF get_optional_u64(ttl).err # "none"
       THEN /\ DbFail(t, op, key, get_optional_u64(ttl).err, <<ttl>>)
            /\ UNCHANGED written
       ELSE /\ block_on(t, [DbCall(op, key) EXCEPT !.data = <<value>>,
                                                   !.args = <<ttl>>])
            /\ written' = WriteBegins(t, key)
    /\ UNCHANGED <<registry, batch, log, takenLog, handed, store, db, snap, txn,
                   iter>>

Database_scan_with_options(t, start, end_key, kwargs) ==
    LET op == "Database.scan_with_options" IN
    /\ Running(t)
    /\ db.Database # "absent"
    /\ IF start = EmptyKey
       THEN DbFail(t, op, start, invalid_argument_error(t), <<kwargs>>)
       ELSE IF ParseScanOptions(t, kwargs) # "ok"
       THEN DbFail(t, op, start, ParseScanOptions(t, kwargs), <<kwargs>>)
       ELSE block_on(t, [DbCall(op, start) EXCEPT !.end = end_key,
                                                  !.args = <<kwargs>>])
    /\ UNCHANGED <<registry, written, batch, log, takenLog, handed, store, db, snap, txn,
                   iter>>

Database_flush(t) ==
    /\ Running(t)
    /\ db.Database # "absent"
    /\ block_on(t, DbCall("Database.flush", EmptyKey))
    /\ UNCHANGED <<registry, written, batch, log, takenLog, handed, store, db,
                   snap, txn, iter>>

Database_close(t) ==
    /\ Running(t)
    /\ db.Database # "absent"
    /\ block_on(t, DbCall("Database.close", EmptyKey))
    /\ UNCHANGED <<registry, written, batch, log, takenLog, handed, store, db,
                   snap, txn, iter>>

\* An engine call of the Database fails with an error of any kind.
Future_fail(t, kind) ==
    /\ pc[t] = "blocked"
    /\ call[t].op \in {"Database.get", "Database.put", "Database.delete",
                       "Database.flush"}
    /\ Resolve(t, ErrRes(kind), 1)
    /\ UNCHANGED <<registry, written, batch, log, takenLog, handed, store, db, snap, txn,
                   iter>>

\* What the engine object behind a closed Database answers to a read: the
\* binding forwards the call either way.
ClosedRead(t, okres) ==
    \/ Resolve(t, ErrRes("Closed"), 1)
    \/ Resolve(t, okres, 1)

\* The engine returns the bytes b to a get, which hands them back as a
\* string; a plain get also notes what the history says of its key.
EngineRead(t, b) ==
    /\ pc' = [pc EXCEPT ![t] = "resolved"]
    /\ call' = [call EXCEPT ![t].res = OkRes(from_utf8_lossy(b)),
                            ![t].engine = @ + 1,
                            ![t].args = IF call[t].op = "Database.get"
                                        THEN <<written[call[t].key]>> ELSE @]
    /\ last' = NoLast
    /\ UNCHANGED <<gvl, RUNTIME, builds>>

\* The future of get: one engine read.
Future_get(t) ==
    /\ pc[t] = "blocked"
    /\ call[t].op \in {"Database.get", "Database.get_with_options"}
    /\ IF db.Database = "open"
       THEN \/ EngineRead(t, store[call[t].key])
            \/ Resolve(t, ErrRes("Unavailable"), 1)
       ELSE \/ Resolve(t, ErrRes("Closed"), 1)
            \/ EngineRead(t, store[call[t].key])
    /\ UNCHANGED <<registry, written, batch, log, takenLog, handed, store, db, snap, txn,
                   iter>>

\* The future of put and of delete: one engine write.
Future_put(t) ==
    /\ pc[t] = "blocked"
    /\ call[t].op \in {"Database.put", "Database.put_with_options",
                       "Database.delete"}
    /\ \/ /\ db.Database = "open"
          /\ store' = [store EXCEPT ![call[t].key] = call[t].data[1]]
          /\ txn' = Publish(txn, {call[t].key}, 0)
          /\ Resolve(t, OkRes(NoValue), 1)
       \/ /\ UNCHANGED <<store, txn>>
          /\ Resolve(t, ErrRes(IF EngineClosed("Database") THEN "Closed"
                               ELSE "Unavailable"), 1)
    /\ UNCHANGED <<registry, written, batch, log, takenLog, handed, db, snap, iter>>

\* The future of scan: one engine call that opens a cursor, and, inside the
\* future, map_error on its error.
Future_scan(t) ==
    /\ pc[t] = "blocked"
    /\ call[t].op \in {"Database.scan", "Database.scan_with_options"}
    /\ \/ /\ pc' = [pc EXCEPT ![t] = "resolved"]
          /\ call' = [call EXCEPT ![t].res = OkRes("iterator"),
                                  ![t].engine = @ + 1,
                                  ![t].view = store,
                                  ![t].data = RangeItems(store, call[t].key,
                                                         call[t].end)]
          /\ last' = NoLast
          /\ UNCHANGED <<gvl, RUNTIME, builds>>
       \/ ResolveOffLock(t, IF EngineClosed("Database") THEN "Closed"
                            ELSE "Unavailable", 1)
    /\ UNCHANGED <<registry, written, batch, log, takenLog, handed, store, db, snap, txn,
                   iter>>

\* The future of flush: one engine call.
Future_flush(t) ==
    /\ pc[t] = "blocked"
    /\ call[t].op = "Database.flush"
    /\ \/ /\ db.Database = "open"
          /\ Resolve(t, OkRes(NoValue), 1)
       \/ Resolve(t, ErrRes(IF EngineClosed("Database") THEN "Closed"
                            ELSE "Unavailable"), 1)
    /\ UNCHANGED <<registry, written, batch, log, takenLog, handed, store, db, snap, txn,
                   iter>>

\* A close that also closes the handles derived from the database (the fault
\* C31 excludes).
Future_close_cascade(t) ==
    /\ pc[t] = "blocked"
    /\ call[t].op = "Database.close"
    /\ db' = [db EXCEPT !.Database = IF @ = "open" THEN "closing" ELSE @]
    /\ snap' = [snap EXCEPT !.inner = IF @ = "Some" THEN "None" ELSE @]
    /\ Resolve(t, OkRes(NoValue), 1)
    /\ UNCHANGED <<registry, written, batch, log, takenLog, handed, store, txn, iter>>

\* The future of close: one engine call, after which the engine object is
\* closed; a close of a closed engine object is answered by the engine.
Future_close(t) ==
    /\ pc[t] = "blocked"
    /\ call[t].op = "Database.close"
    /\ \/ /\ db' = [db EXCEPT !.Database = IF @ = "open" THEN "closing" ELSE @]
          /\ Resolve(t, OkRes(NoValue), 1)
       \/ /\ db' = db
          /\ Resolve(t, ErrRes(IF EngineClosed("Database") THEN "Closed"
                               ELSE "Unavailable"), 1)
    /\ UNCHANGED <<registry, written, batch, log, takenLog, handed, store, snap, txn, iter>>

\* ------------------------------------------------------------------ reader.rs
\* Option<String> checkpoint_id: absent, a UUID, something else.
NoCheckpoint == "none"
CheckpointIds == {NoCheckpoint, "uuid", "not-a-uuid"}

\* manifest_poll_interval, checkpoint_lifetime, max_memtable_bytes in the
\* order open reads them: "ok", or the class of the exception raised.
ParseReaderOptions(kw) ==
    LET mpi == get_optional_u64(kw[1])
        cl == get_optional_u64(kw[2])
        mmb == get_optional_u64(kw[3])
    IN
    IF mpi.err # "none" THEN mpi.err
    ELSE IF cl.err # "none" THEN cl.err
    ELSE IF mmb.err # "none" THEN mmb.err
    ELSE "ok"

ReaderCall(op, key) ==
    [NewCall(op, 0, key, <<>>) EXCEPT !.wasClosed = db.Reader = "closed"]

Reader_open(t, url, checkpoint_id, kwargs) ==
    /\ Running(t)
    /\ db.Reader = "absent"
    /\ InFlight("Reader.open") = {}
    /\ IF ParseReaderOptions(kwargs) # "ok"
       THEN Fail(t, "Reader.open", 0, ParseReaderOptions(kwargs), FALSE, FALSE)
       ELSE IF checkpoint_id \notin {NoCheckpoint, "uuid"}
       THEN Fail(t, "Reader.open", 0, invalid_argument_error(t), FALSE, FALSE)
       ELSE /\ block_on(t, [NewCall("Reader.open", 0, EmptyKey, <<>>)
                              EXCEPT !.url = url, !.args = <<url, "none">>])
    /\ UNCHANGED <<registry, written, batch, log, takenLog, handed, store, db, snap, txn,
                   iter>>

\* url.try_into(): the strings the URL parser refuses.
UnparsableUrls == {"bad"}
\* ObjectStoreScheme::parse: the scheme of a parsed URL, or none it knows.
ObjectStoreScheme_parse(url) ==
    CASE url \in {"s3://bucket", "s3://"} -> "AmazonS3"
      [] url = "memory:///" -> "Memory"
      [] url = "file:///data" -> "Local"
      [] OTHER -> "unrecognised"
\* AmazonS3Builder::from_env().with_url(url).build(): fails without a bucket.
AmazonS3Builder_build(url) == url # "s3://"

SlateOk(by) == [status |-> "ok", kind |-> "none", by |-> by]
SlateErr(kind, by) == [status |-> "err", kind |-> kind, by |-> by]

\* A resolver that hands every URL to the engine's resolver (the fault C29
\* excludes).
resolve_object_store_engine_only(url) ==
    IF url \in UnparsableUrls THEN SlateErr("Invalid", "none")
    ELSE IF ObjectStoreScheme_parse(url) = "unrecognised"
    THEN SlateErr("Unavailable", "none")
    ELSE IF ObjectStoreScheme_parse(url) = "AmazonS3" /\ ~AmazonS3Builder_build(url)
    THEN SlateErr("Unavailable", "engine")
    ELSE SlateOk("engine")

\* utils.rs resolve_object_store: parse the URL, find its scheme, build S3
\* from the environment and leave every other scheme to the engine.
resolve_object_store(url) ==
    IF url \in UnparsableUrls THEN SlateErr("Invalid", "none")
    ELSE IF ObjectStoreScheme_parse(url) = "unrecognised"
    THEN SlateErr("Unavailable", "none")
    ELSE IF ObjectStoreScheme_parse(url) = "AmazonS3"
    THEN IF AmazonS3Builder_build(url) THEN SlateOk("from_env")
         ELSE SlateErr("Unavailable", "from_env")
    ELSE SlateOk("engine")

\* The future of Reader.open: the URL, if there is one, is resolved, then the
\* engine opens the reader; the error is converted after the bridge call
\* (block_on_result).
Future_reader_open(t) ==
    LET r == IF call[t].url = NoUrl THEN SlateOk("none")
             ELSE resolve_object_store(call[t].url)
        done(res, n) ==
            /\ pc' = [pc EXCEPT ![t] = "resolved"]
            /\ call' = [call EXCEPT ![t].res = res, ![t].engine = @ + n,
                                    ![t].args[2] = r.by]
            /\ last' = NoLast
            /\ UNCHANGED <<gvl, RUNTIME, builds>>
    IN
    /\ pc[t] = "blocked"
    /\ call[t].op = "Reader.open"
    /\ IF r.status = "err"
       THEN done(ErrRes(r.kind), 0)
       ELSE \/ done(OkRes("reader"), 1)
            \/ done(ErrRes("Unavailable"), 1)
    /\ UNCHANGED <<registry, written, batch, log, takenLog, handed, store, db, snap, txn,
                   iter>>

Reader_get(t, key) ==
    /\ Running(t)
    /\ db.Reader # "absent"
    /\ IF key = EmptyKey
       THEN Fail(t, "Reader.get", 0, invalid_argument_error(t),
                 db.Reader = "closed", FALSE)
       ELSE /\ block_on(t, ReaderCall("Reader.get", key))
    /\ UNCHANGED <<registry, written, batch, log, takenLog, handed, store, db, snap, txn,
                   iter>>

Reader_scan(t, start, end_key) ==
    /\ Running(t)
    /\ db.Reader # "absent"
    /\ IF start = EmptyKey
       THEN Fail(t, "Reader.scan", 0, invalid_argument_error(t),
                 db.Reader = "closed", FALSE)
       ELSE /\ block_on(t, [ReaderCall("Reader.scan", start) EXCEPT !.end = end_key])
    /\ UNCHANGED <<registry, written, batch, log, takenLog, handed, store, db, snap, txn,
                   iter>>

Reader_close(t) ==
    /\ Running(t)
    /\ db.Reader # "absent"
    /\ block_on(t, ReaderCall("Reader.close", EmptyKey))
    /\ UNCHANGED <<registry, written, batch, log, takenLog, handed, store, db,
                   snap, txn, iter>>

\* The future of Reader.get: one engine read.
Future_reader_get(t) ==
    /\ pc[t] = "blocked"
    /\ call[t].op = "Reader.get"
    /\ IF db.Reader = "open"
       THEN \/ Resolve(t, OkRes(store[call[t].key]), 1)
            \/ Resolve(t, ErrRes("Unavailable"), 1)
       ELSE ClosedRead(t, OkRes(store[call[t].key]))
    /\ UNCHANGED <<registry, written, batch, log, takenLog, handed, store, db, snap, txn,
                   iter>>

\* The future of Reader.scan: one engine call that opens a cursor.
Future_reader_scan(t) ==
    /\ pc[t] = "blocked"
    /\ call[t].op = "Reader.scan"
    /\ \/ /\ call' = [call EXCEPT ![t].res = OkRes("iterator"),
                                  ![t].engine = @ + 1,
                                  ![t].view = store,
                                  ![t].data = RangeItems(store, call[t].key,
                                                         call[t].end)]
          /\ pc' = [pc EXCEPT ![t] = "resolved"]
          /\ last' = NoLast
          /\ UNCHANGED <<gvl, RUNTIME, builds>>
       \/ Resolve(t, ErrRes(IF EngineClosed("Reader") THEN "Closed"
                            ELSE "Unavailable"), 1)
    /\ UNCHANGED <<registry, written, batch, log, takenLog, handed, store, db, snap, txn,
                   iter>>

\* The future of Reader.close: one engine call.
Future_reader_close(t) ==
    /\ pc[t] = "blocked"
    /\ call[t].op = "Reader.close"
    /\ \/ /\ db' = [db EXCEPT !.Reader = IF @ = "open" THEN "closing" ELSE @]
          /\ Resolve(t, OkRes(NoValue), 1)
       \/ /\ db' = db
          /\ Resolve(t, ErrRes(IF EngineClosed("Reader") THEN "Closed"
                               ELSE "Unavailable"), 1)
    /\ UNCHANGED <<registry, written, batch, log, takenLog, handed, store, snap, txn, iter>>

\* ------------------------------------------------------------------ iterator.rs
IterOps == {"Iterator.next", "Iterator.next_bytes", "Iterator.seek",
            "Iterator.close"}

\* A method of the Iterator: every one of them goes to the bridge.  The call
\* notes (history) the key of the seek it follows, filled in by next, and
\* whether the cursor was there and no close was in flight when it was issued.
IterCall(op, key) ==
    [NewCall(op, 0, key, <<>>)
        EXCEPT !.wasClosed = iter.closed,
               !.args = <<EmptyKey,
                          IF iter.inner = "Some"
                             /\ \A u \in Threads : call[u].op # "Iterator.close"
                          THEN "open" ELSE "closing">>]

Iterator_next_entry(t) ==
    /\ Running(t)
    /\ iter.inner # "absent"
    /\ block_on(t, IterCall("Iterator.next", EmptyKey))
    /\ UNCHANGED <<registry, written, batch, log, takenLog, handed, store, db,
                   snap, txn, iter>>

Iterator_next_entry_bytes(t) ==
    /\ Running(t)
    /\ iter.inner # "absent"
    /\ block_on(t, IterCall("Iterator.next_bytes", EmptyKey))
    /\ UNCHANGED <<registry, written, batch, log, takenLog, handed, store, db,
                   snap, txn, iter>>

Iterator_seek(t, key) ==
    /\ Running(t)
    /\ iter.inner # "absent"
    /\ IF key = EmptyKey
       THEN Fail(t, "Iterator.seek", 0, invalid_argument_error(t), iter.closed, FALSE)
       ELSE /\ block_on(t, IterCall("Iterator.seek", key))
    /\ UNCHANGED <<registry, written, batch, log, takenLog, handed, store, db, snap, txn,
                   iter>>

Iterator_close(t) ==
    /\ Running(t)
    /\ iter.inner # "absent"
    /\ block_on(t, IterCall("Iterator.close", EmptyKey))
    /\ UNCHANGED <<registry, written, batch, log, takenLog, handed, store, db,
                   snap, txn, iter>>

\* A Mutex that admits a second holder (the fault C24 excludes).
Iterator_lock_shared(t) ==
    /\ pc[t] = "blocked"
    /\ call[t].op \in IterOps
    /\ iter' = [iter EXCEPT !.lock = t]
    /\ pc' = [pc EXCEPT ![t] = "locked"]
    /\ last' = NoLast
    /\ UNCHANGED <<gvl, call, RUNTIME, builds>>
    /\ UNCHANGED <<registry, written, batch, log, takenLog, handed, store, db, snap, txn>>

\* inner.lock().await: the future of an Iterator method waits for the tokio
\* Mutex and holds it until the future is done.
Iterator_lock(t) ==
    /\ pc[t] = "blocked"
    /\ call[t].op \in IterOps
    /\ iter.lock = NoThread
    /\ iter' = [iter EXCEPT !.lock = t]
    /\ pc' = [pc EXCEPT ![t] = "locked"]
    /\ last' = NoLast
    /\ UNCHANGED <<gvl, call, RUNTIME, builds>>
    /\ UNCHANGED <<registry, written, batch, log, takenLog, handed, store, db, snap, txn>>

\* The future of next / next_bytes under the Mutex: one cursor step on Some,
\* IteratorError::Closed on None.
Future_next(t) ==
    /\ pc[t] = "locked"
    /\ call[t].op \in {"Iterator.next", "Iterator.next_bytes"}
    /\ IF iter.inner = "Some"
       THEN \/ /\ iter.pos <= Len(iter.items)
               /\ iter' = [iter EXCEPT !.pos = @ + 1, !.lastKey = iter.items[iter.pos],
                                       !.lock = NoThread, !.sought = EmptyKey]
               /\ pc' = [pc EXCEPT ![t] = "resolved"]
               /\ call' = [call EXCEPT
                             ![t].res = OkRes(IF call[t].op = "Iterator.next"
                                              THEN from_utf8_lossy(
                                                      iter.view[iter.items[iter.pos]])
                                              ELSE iter.view[iter.items[iter.pos]]),
                             ![t].key = iter.items[iter.pos],
                             ![t].engine = @ + 1,
                             ![t].args[1] = iter.sought]
               /\ last' = NoLast
               /\ UNCHANGED <<gvl, RUNTIME, builds>>
            \/ /\ iter.pos > Len(iter.items)
               /\ iter' = [iter EXCEPT !.lock = NoThread, !.sought = EmptyKey]
               /\ pc' = [pc EXCEPT ![t] = "resolved"]
               /\ call' = [call EXCEPT ![t].res = OkRes(NoValue),
                                       ![t].engine = @ + 1,
                                       ![t].args[1] = iter.sought]
               /\ last' = NoLast
               /\ UNCHANGED <<gvl, RUNTIME, builds>>
            \/ /\ iter' = [iter EXCEPT !.lock = NoThread]
               /\ Resolve(t, ErrRes("Unavailable"), 1)
       ELSE /\ iter' = [iter EXCEPT !.lock = NoThread]
            /\ Resolve(t, ErrRes("IteratorClosed"), 0)
    /\ UNCHANGED <<registry, written, batch, log, takenLog, handed, store, db, snap, txn>>

\* A seek that lands one pair too far (the fault C22 excludes).
SeekPos_past(items, key) ==
    1 + Cardinality({i \in 1..Len(items) : KeyLeq(items[i], key)})

\* The first position at or after key.
SeekPos(items, key) ==
    1 + Cardinality({i \in 1..Len(items) : KeyLess(items[i], key)})

\* A seek whose future keeps the Mutex guard when the cursor is gone (the
\* fault C40 excludes).
Future_seek_holding(t) ==
    /\ pc[t] = "locked"
    /\ call[t].op = "Iterator.seek"
    /\ iter' = IF iter.inner = "Some"
                  /\ InRange(call[t].key, iter.start, iter.end)
                  /\ (iter.lastKey = EmptyKey \/ KeyLess(iter.lastKey, call[t].key))
               THEN [iter EXCEPT !.pos = SeekPos(iter.items, call[t].key),
                                 !.lock = NoThread, !.sought = call[t].key]
               ELSE IF iter.inner # "Some" THEN iter
               ELSE [iter EXCEPT !.lock = NoThread]
    /\ IF iter.inner # "Some"
       THEN Resolve(t, ErrRes("IteratorClosed"), 0)
       ELSE IF ~InRange(call[t].key, iter.start, iter.end)
               \/ (iter.lastKey # EmptyKey /\ KeyLeq(call[t].key, iter.lastKey))
       THEN Resolve(t, ErrRes("Invalid"), 1)
       ELSE Resolve(t, OkRes(NoValue), 1)
    /\ UNCHANGED <<registry, written, batch, log, takenLog, handed, store, db, snap, txn>>

\* The future of seek under the Mutex: the engine rejects a key outside the
\* range of the scan and a key at or before the last key returned.
Future_seek(t) ==
    /\ pc[t] = "locked"
    /\ call[t].op = "Iterator.seek"
    /\ iter' = IF iter.inner = "Some"
                  /\ InRange(call[t].key, iter.start, iter.end)
                  /\ (iter.lastKey = EmptyKey \/ KeyLess(iter.lastKey, call[t].key))
               THEN [iter EXCEPT !.pos = SeekPos(iter.items, call[t].key),
                                 !.lock = NoThread, !.sought = call[t].key]
               ELSE [iter EXCEPT !.lock = NoThread]
    /\ IF iter.inner # "Some"
       THEN Resolve(t, ErrRes("IteratorClosed"), 0)
       ELSE IF ~InRange(call[t].key, iter.start, iter.end)
               \/ (iter.lastKey # EmptyKey /\ KeyLeq(call[t].key, iter.lastKey))
       THEN Resolve(t, ErrRes("Invalid"), 1)
       ELSE Resolve(t, OkRes(NoValue), 1)
    /\ UNCHANGED <<registry, written, batch, log, takenLog, handed, store, db, snap, txn>>

\* A close that fails on a cursor already dropped (the fault C23 excludes).
Future_iterator_close_once(t) ==
    /\ pc[t] = "locked"
    /\ call[t].op = "Iterator.close"
    /\ iter' = [iter EXCEPT !.inner = "None", !.lock = NoThread]
    /\ IF iter.inner = "None"
       THEN Resolve(t, ErrRes("IteratorClosed"), 0)
       ELSE Resolve(t, OkRes(NoValue), 0)
    /\ UNCHANGED <<registry, written, batch, log, takenLog, handed, store, db, snap, txn>>

\* The future of close under the Mutex: the cursor is dropped.
Future_iterator_close(t) ==
    /\ pc[t] = "locked"
    /\ call[t].op = "Iterator.close"
    /\ iter' = [iter EXCEPT !.inner = "None", !.lock = NoThread]
    /\ Resolve(t, OkRes(NoValue), 0)
    /\ UNCHANGED <<registry, written, batch, log, takenLog, handed, store, db, snap, txn>>

\* ------------------------------------------------------------------ admin.rs
AdminState == <<registry, written, batch, log, takenLog, handed, store, snap, txn, iter>>

\* Admin::new: a given URL is resolved through the bridge, no URL builds an
\* in-memory store without it.
Admin_new(t, url) ==
    /\ Running(t)
    /\ db.Admin = "absent"
    /\ InFlight("Admin.new") = {}
    /\ IF url = NoUrl
       THEN /\ db' = [db EXCEPT !.Admin = "open"]
            /\ ReturnLocal(t, Local(t, "Admin.new", 0, "ok", "none", NoValue,
                                    FALSE, TRUE))
       ELSE /\ block_on(t, [NewCall("Admin.new", 0, EmptyKey, <<>>)
                              EXCEPT !.url = url,
                                     !.args = <<url, Db_resolve_object_store(url)>>])
            /\ UNCHANGED db
    /\ UNCHANGED AdminState

Future_admin_new(t) ==
    /\ pc[t] = "blocked"
    /\ call[t].op = "Admin.new"
    /\ IF call[t].url = "bad"
       THEN Resolve(t, ErrRes("Invalid"), 0)
       ELSE Resolve(t, OkRes("admin"), 0)
    /\ UNCHANGED <<db, AdminState>>

\* A method of the Admin handle that goes straight to the bridge.
AdminCall(t, op, data) ==
    /\ Running(t)
    /\ db.Admin = "open"
    /\ block_on(t, [NewCall(op, 0, EmptyKey, <<>>) EXCEPT !.args = data])
    /\ UNCHANGED <<db, AdminState>>

\* A method of the Admin handle that raises before the bridge.
AdminFail(t, op, class, data) ==
    /\ Running(t)
    /\ db.Admin = "open"
    /\ ReturnLocal(t, [Local(t, op, 0, "err", class, NoValue, FALSE, FALSE)
                          EXCEPT !.args = data])
    /\ UNCHANGED <<db, AdminState>>

Admin_read_manifest(t) == AdminCall(t, "Admin.read_manifest", <<>>)
Admin_list_manifests(t) == AdminCall(t, "Admin.list_manifests", <<>>)
Admin_list_checkpoints(t) == AdminCall(t, "Admin.list_checkpoints", <<>>)

\* uuid::Uuid::parse_str
Uuid_parse_str(id) == id = "uuid"

NoCheckpointKwargs == [lifetime |-> Absent, source |-> Absent, name |-> Absent]
CheckpointKwargs ==
    {NoCheckpointKwargs, [NoCheckpointKwargs EXCEPT !.name = BadValue]}
    \cup {[NoCheckpointKwargs EXCEPT !.source = v] :
            v \in {"uuid", "not-a-uuid", BadValue}}
    \cup {[NoCheckpointKwargs EXCEPT !.lifetime = v, !.source = "not-a-uuid"] :
            v \in {"5", BadValue}}

\* lifetime, source and name are converted, then the source is parsed.
Admin_create_checkpoint(t, kwargs) ==
    LET lifetime == get_optional_u64(kwargs.lifetime)
        source == get_optional_string(kwargs.source)
        name == get_optional_string(kwargs.name)
        op == "Admin.create_checkpoint"
    IN
    IF lifetime.err # "none" THEN AdminFail(t, op, lifetime.err, <<kwargs.source>>)
    ELSE IF source.err # "none" THEN AdminFail(t, op, source.err, <<kwargs.source>>)
    ELSE IF name.err # "none" THEN AdminFail(t, op, name.err, <<kwargs.source>>)
    ELSE IF source.some /\ ~Uuid_parse_str(source.v)
    THEN AdminFail(t, op, invalid_argument_error(t), <<kwargs.source>>)
    ELSE AdminCall(t, op, <<kwargs.source>>)

Admin_refresh_checkpoint(t, id) ==
    IF ~Uuid_parse_str(id)
    THEN AdminFail(t, "Admin.refresh_checkpoint", invalid_argument_error(t), <<id>>)
    ELSE AdminCall(t, "Admin.refresh_checkpoint", <<id>>)

Admin_delete_checkpoint(t, id) ==
    IF ~Uuid_parse_str(id)
    THEN AdminFail(t, "Admin.delete_checkpoint", invalid_argument_error(t), <<id>>)
    ELSE AdminCall(t, "Admin.delete_checkpoint", <<id>>)

\* Milliseconds of the engine's default minimum ages, as run_gc documents them.
DayMs == 86400000
MinuteMs == 60000
GarbageCollectorOptions_default ==
    [manifest |-> DayMs, wal |-> MinuteMs, compacted |-> MinuteMs]

\* A resolution that prefers the general age (the fault C17 excludes).
make_dir_opts_general_first(specific_age, fallback_age, default_opts) ==
    IF fallback_age.some THEN fallback_age.v
    ELSE IF specific_age.some THEN specific_age.v
    ELSE default_opts

\* specific_age.or(fallback_age), else the default of the area.
make_dir_opts(specific_age, fallback_age, default_opts) ==
    IF specific_age.some THEN specific_age.v
    ELSE IF fallback_age.some THEN fallback_age.v
    ELSE default_opts

NoGcKwargs == [min_age |-> Absent, manifest_min_age |-> Absent,
               wal_min_age |-> Absent, compacted_min_age |-> Absent]
GcKwargs ==
    {[min_age |-> g, manifest_min_age |-> m, wal_min_age |-> w,
      compacted_min_age |-> c] :
        g \in {Absent, "5"}, m \in {Absent, Nil, "7"},
        w \in {Absent, "7"}, c \in {Absent, "7", BadValue}}

\* The four ages are converted, the options of the three areas are built and
\* handed to the engine.
Admin_run_gc(t, kwargs) ==
    LET min_age == get_optional_u64(kwargs.min_age)
        manifest_min_age == get_optional_u64(kwargs.manifest_min_age)
        wal_min_age == get_optional_u64(kwargs.wal_min_age)
        compacted_min_age == get_optional_u64(kwargs.compacted_min_age)
        d == GarbageCollectorOptions_default
        gc_opts ==
            IF ~min_age.some /\ ~manifest_min_age.some /\ ~wal_min_age.some
               /\ ~compacted_min_age.some
            THEN d
            ELSE [manifest |-> make_dir_opts(manifest_min_age, min_age, d.manifest),
                  wal |-> make_dir_opts(wal_min_age, min_age, d.wal),
                  compacted |-> make_dir_opts(compacted_min_age, min_age,
                                              d.compacted)]
        op == "Admin.run_gc"
    IN
    IF min_age.err # "none" THEN AdminFail(t, op, min_age.err, <<kwargs>>)
    ELSE IF manifest_min_age.err # "none"
    THEN AdminFail(t, op, manifest_min_age.err, <<kwargs>>)
    ELSE IF wal_min_age.err # "none" THEN AdminFail(t, op, wal_min_age.err, <<kwargs>>)
    ELSE IF compacted_min_age.err # "none"
    THEN AdminFail(t, op, compacted_min_age.err, <<kwargs>>)
    ELSE AdminCall(t, op, <<kwargs, gc_opts>>)

AdminOps == AdminDirectOps \cup {"Admin.create_checkpoint",
                                  "Admin.refresh_checkpoint",
                                  "Admin.delete_checkpoint"}

\* The engine call of an Admin method succeeds.
Future_admin(t) ==
    /\ pc[t] = "blocked"
    /\ call[t].op \in AdminOps
    /\ Resolve(t, OkRes("ok"), 1)
    /\ UNCHANGED <<db, AdminState>>

\* The engine call of an Admin method fails with an error of any kind.
Future_admin_fail(t, kind) ==
    /\ pc[t] = "blocked"
    /\ call[t].op \in AdminOps
    /\ Resolve(t, ErrRes(kind), 1)
    /\ UNCHANGED <<db, AdminState>>

\* ------------------------------------------------------------------ inputs
\* The argument tuples the specifications below draw from: every branch of
\* every handler is taken by one of them.
ScanRanges == {<<EmptyKey, NoEnd>>, <<(<<1>>), NoEnd>>, <<(<<1>>), <<(<<2>>)>> >>,
               <<(<<2>>), <<EmptyKey>> >>}
GetOptArgs == {<<EmptyKey, NoKwargs>>} \cup {<<(<<1>>), kw>> : kw \in ReadKwargs}
ScanOptArgs == {<<EmptyKey, NoEnd, NoKwargs>>}
               \cup {<<(<<1>>), NoEnd, kw>> : kw \in ScanKwargs}
PutOptArgs == {<<EmptyKey, Absent>>} \cup {<<(<<1>>), o>> : o \in U64OptionValues}
SomeGetOptArgs ==
    {<<EmptyKey, NoKwargs>>, <<(<<1>>), NoKwargs>>,
     <<(<<1>>), [NoKwargs EXCEPT !.durability_filter = "invalid"]>>}
SomeScanOptArgs ==
    {<<EmptyKey, NoEnd, NoKwargs>>, <<(<<1>>), NoEnd, NoKwargs>>,
     <<(<<1>>), NoEnd, [NoKwargs EXCEPT !.max_fetch_tasks = BadValue]>>}
SomePutOptArgs == {<<EmptyKey, Absent>>, <<(<<1>>), "5">>, <<(<<1>>), "-1">>}
OneValue == {"v1"}
OneKey == {EmptyKey, <<1>>}
OneRange == {<<EmptyKey, NoEnd>>, <<(<<1>>), NoEnd>>, <<(<<1>>), <<EmptyKey>> >>}

\* ------------------------------------------------------------------ WriteBatch and Database.write
NextBatch ==
    \/ \E t \in Threads : Database_open(t, NoUrl)
    \/ \E t \in Threads : Future_open(t)
    \/ \E t \in Threads, k \in OneKey, v \in OneValue : WriteBatch_put(t, k, v)
    \/ \E t \in Threads, k \in OneKey, v \in OneValue, o \in {Absent, "5", "-1"} :
          WriteBatch_put_with_options(t, k, v, o)
    \/ \E t \in Threads, k \in OneKey : WriteBatch_delete(t, k)
    \/ \E t \in Threads : Database_write(t)
    \/ \E t \in Threads, o \in {Absent, "false"} :
          Database_write_with_options(t, o)
    \/ \E t \in Threads : Future_write(t)
    \/ \E t \in Threads : BridgeReturn(t)

SpecBatch == Init /\ [][NextBatch]_vars

\* The submissions of one batch alone: appends, and both write methods.
NextTake ==
    \/ \E t \in Threads : Database_open(t, NoUrl)
    \/ \E t \in Threads : Future_open(t)
    \/ \E t \in Threads, k \in OneKey, v \in OneValue : WriteBatch_put(t, k, v)
    \/ \E t \in Threads : Database_write(t)
    \/ \E t \in Threads : Database_write_with_options(t, "false")
    \/ \E t \in Threads : Future_write(t)
    \/ \E t \in Threads : BridgeReturn(t)

SpecTake == Init /\ [][NextTake]_vars

\* ------------------------------------------------------------------ Snapshot
NextSnap ==
    \/ \E t \in Threads : Database_open(t, NoUrl)
    \/ \E t \in Threads : Future_open(t)
    \/ \E t \in Threads : Database_snapshot(t)
    \/ \E t \in Threads : Future_snapshot(t)
    \/ \E t \in Threads, k \in Keys : Snapshot_get(t, k)
    \/ \E t \in Threads, a \in GetOptArgs : Snapshot_get_with_options(t, a[1], a[2])
    \/ \E t \in Threads, r \in ScanRanges : Snapshot_scan(t, r[1], r[2])
    \/ \E t \in Threads, a \in ScanOptArgs :
          Snapshot_scan_with_options(t, a[1], a[2], a[3])
    \/ \E t \in Threads : Snapshot_close(t)
    \/ \E t \in Threads : Snapshot_is_closed(t)
    \/ \E t \in Threads : Future_snapshot_get(t)
    \/ \E t \in Threads : Future_snapshot_scan(t)
    \/ \E t \in Threads : BridgeReturn(t)

SpecSnap == Init /\ [][NextSnap]_vars

\* ------------------------------------------------------------------ Transaction
NextTxn ==
    \/ \E t \in Threads : Database_open(t, NoUrl)
    \/ \E t \in Threads : Future_open(t)
    \/ \E t \in Threads, l \in IsolationLiterals : Database_begin_transaction(t, l, 1)
    \/ \E t \in Threads : Future_begin(t)
    \/ \E t \in Threads, i \in {1}, k \in OneKey : Transaction_get(t, i, k)
    \/ \E t \in Threads, i \in {1}, a \in SomeGetOptArgs :
          Transaction_get_with_options(t, i, a[1], a[2])
    \/ \E t \in Threads, i \in {1}, k \in OneKey, v \in OneValue :
          Transaction_put(t, i, k, v)
    \/ \E t \in Threads, i \in {1}, a \in SomePutOptArgs, v \in OneValue :
          Transaction_put_with_options(t, i, a[1], v, a[2])
    \/ \E t \in Threads, i \in {1}, k \in OneKey : Transaction_delete(t, i, k)
    \/ \E t \in Threads, i \in {1}, r \in OneRange :
          Transaction_scan(t, i, r[1], r[2])
    \/ \E t \in Threads, i \in {1}, a \in SomeScanOptArgs :
          Transaction_scan_with_options(t, i, a[1], a[2], a[3])
    \/ \E t \in Threads, i \in {1} : Transaction_commit(t, i)
    \/ \E t \in Threads, i \in {1}, o \in BoolOptionValues :
          Transaction_commit_with_options(t, i, o)
    \/ \E t \in Threads, i \in {1} : Transaction_rollback(t, i)
    \/ \E t \in Threads, i \in {1} : Transaction_is_closed(t, i)
    \/ \E t \in Threads : Future_transaction_get(t)
    \/ \E t \in Threads : Future_transaction_scan(t)
    \/ \E t \in Threads : Future_commit(t)
    \/ \E t \in Threads : BridgeReturn(t)

SpecTxn == Init /\ [][NextTxn]_vars

\* ------------------------------------------------------------------ two Transactions
\* Each host thread begins and drives a Transaction of its own.
NextConflict ==
    \/ \E t \in Threads : Database_open(t, NoUrl)
    \/ \E t \in Threads : Future_open(t)
    \/ \E t \in Threads, l \in {"snapshot", "serializable"} :
          Database_begin_transaction(t, l, t)
    \/ \E t \in Threads : Future_begin(t)
    \/ \E t \in Threads, k \in NonEmptyKeys : Transaction_get(t, t, k)
    \/ \E t \in Threads, k \in NonEmptyKeys, v \in OneValue :
          Transaction_put(t, t, k, v)
    \/ \E t \in Threads, k \in NonEmptyKeys : Transaction_delete(t, t, k)
    \/ \E t \in Threads : Transaction_commit(t, t)
    \/ \E t \in Threads : Future_transaction_get(t)
    \/ \E t \in Threads : Future_commit(t)
    \/ \E t \in Threads : BridgeReturn(t)

SpecConflict == Init /\ [][NextConflict]_vars


\* ------------------------------------------------------------------ Database, Reader
SomeReaderKwargs == {<<Absent, Absent, Absent>>, <<"5", Nil, "5">>,
                     <<BadValue, Absent, Absent>>, <<Absent, "-1", Absent>>,
                     <<Absent, Absent, BadValue>>}

NextDb ==
    \/ \E t \in Threads, u \in Urls : Database_open(t, u)
    \/ \E t \in Threads : Future_open(t)
    \/ \E t \in Threads, k \in OneKey : Database_get(t, k)
    \/ \E t \in Threads, k \in OneKey, v \in OneValue : Database_put(t, k, v)
    \/ \E t \in Threads, k \in OneKey : Database_delete(t, k)
    \/ \E t \in Threads, r \in OneRange : Database_scan(t, r[1], r[2])
    \/ \E t \in Threads : Database_flush(t)
    \/ \E t \in Threads : Database_close(t)
    \/ \E t \in Threads : Future_get(t)
    \/ \E t \in Threads : Future_put(t)
    \/ \E t \in Threads : Future_scan(t)
    \/ \E t \in Threads : Future_flush(t)
    \/ \E t \in Threads : Future_close(t)
    \/ \E t \in Threads : BridgeReturn(t)

SpecDb == Init /\ [][NextDb]_vars

NextReader ==
    \/ \E t \in Threads, u \in Urls : Database_open(t, u)
    \/ \E t \in Threads : Future_open(t)
    \/ \E t \in Threads, k \in OneKey, v \in OneValue : Database_put(t, k, v)
    \/ \E t \in Threads : Future_put(t)
    \/ \E t \in Threads, u \in Urls, c \in CheckpointIds, kw \in SomeReaderKwargs :
          Reader_open(t, u, c, kw)
    \/ \E t \in Threads : Future_reader_open(t)
    \/ \E t \in Threads, k \in OneKey : Reader_get(t, k)
    \/ \E t \in Threads, r \in OneRange : Reader_scan(t, r[1], r[2])
    \/ \E t \in Threads : Reader_close(t)
    \/ \E t \in Threads : Future_reader_get(t)
    \/ \E t \in Threads : Future_reader_scan(t)
    \/ \E t \in Threads : Future_reader_close(t)
    \/ \E t \in Threads : BridgeReturn(t)

SpecReader == Init /\ [][NextReader]_vars

\* ------------------------------------------------------------------ Database with options
OptKwargs ==
    {NoKwargs}
    \cup {[NoKwargs EXCEPT !.durability_filter = v] :
            v \in {"remote", "invalid", BadValue}}
    \cup {[NoKwargs EXCEPT !.dirty = BadValue],
          [NoKwargs EXCEPT !.max_fetch_tasks = BadValue]}

OptArgs == {<<EmptyKey, NoKwargs>>} \cup {<<(<<1>>), kw>> : kw \in OptKwargs}
PutArgs == {<<EmptyKey, Absent>>}
           \cup {<<(<<1>>), o>> : o \in {Absent, "5", "-1", BadValue}}

NextOpt ==
    \/ \E t \in Threads : Database_open(t, NoUrl)
    \/ \E t \in Threads : Future_open(t)
    \/ \E t \in Threads, k \in OneKey : Database_get(t, k)
    \/ \E t \in Threads, a \in OptArgs : Database_get_with_options(t, a[1], a[2])
    \/ \E t \in Threads, a \in PutArgs :
          Database_put_with_options(t, a[1], "v1", a[2])
    \/ \E t \in Threads, a \in OptArgs :
          Database_scan_with_options(t, a[1], NoEnd, a[2])
    \/ \E t \in Threads : Future_get(t)
    \/ \E t \in Threads : Future_put(t)
    \/ \E t \in Threads : Future_scan(t)
    \/ \E t \in Threads : BridgeReturn(t)

SpecOpt == Init /\ [][NextOpt]_vars

\* ------------------------------------------------------------------ put, delete, get
PutValues == {"v1", BinValue}

NextPutGet ==
    \/ \E t \in Threads : Database_open(t, NoUrl)
    \/ \E t \in Threads : Future_open(t)
    \/ \E t \in Threads, v \in PutValues : Database_put(t, <<1>>, v)
    \/ \E t \in Threads : Database_delete(t, <<1>>)
    \/ \E t \in Threads : Database_get(t, <<1>>)
    \/ \E t \in Threads : Future_put(t)
    \/ \E t \in Threads : Future_get(t)
    \/ \E t \in Threads : BridgeReturn(t)

SpecPutGet == Init /\ [][NextPutGet]_vars

\* ------------------------------------------------------------------ begin_transaction
NextBegin ==
    \/ \E t \in Threads : Database_open(t, NoUrl)
    \/ \E t \in Threads : Future_open(t)
    \/ \E t \in Threads, l \in IsolationLiterals :
          Database_begin_transaction(t, l, 1)
    \/ \E t \in Threads : Future_begin(t)
    \/ \E t \in Threads : Transaction_rollback(t, 1)
    \/ \E t \in Threads : BridgeReturn(t)

SpecBegin == Init /\ [][NextBegin]_vars

\* ------------------------------------------------------------------ engine errors
\* Reads, writes and flushes of the Database whose engine call may fail with
\* every kind of error.
NextErr ==
    \/ \E t \in Threads : Database_open(t, NoUrl)
    \/ \E t \in Threads : Future_open(t)
    \/ \E t \in Threads, k \in OneKey : Database_get(t, k)
    \/ \E t \in Threads, k \in OneKey, v \in OneValue : Database_put(t, k, v)
    \/ \E t \in Threads : Database_flush(t)
    \/ \E t \in Threads : Future_get(t)
    \/ \E t \in Threads : Future_put(t)
    \/ \E t \in Threads : Future_flush(t)
    \/ \E t \in Threads, k \in ErrorKinds : Future_fail(t, k)
    \/ \E t \in Threads : BridgeReturn(t)

SpecErr == Init /\ [][NextErr]_vars

\* ------------------------------------------------------------------ Iterator: next
\* The main thread fills the store and scans; every thread reads the cursor.
NextNext ==
    \/ Database_open(MainThread, NoUrl)
    \/ \E t \in Threads : Future_open(t)
    \/ \E k \in NonEmptyKeys, v \in OneValue : Database_put(MainThread, k, v)
    \/ \E t \in Threads : Future_put(t)
    \/ \E r \in ScanRanges : Database_scan(MainThread, r[1], r[2])
    \/ \E t \in Threads : Future_scan(t)
    \/ \E t \in Threads : Iterator_next_entry(t)
    \/ \E t \in Threads : Iterator_next_entry_bytes(t)
    \/ \E t \in Threads : Iterator_lock(t)
    \/ \E t \in Threads : Future_next(t)
    \/ \E t \in Threads : BridgeReturn(t)

SpecNext == Init /\ [][NextNext]_vars

\* ------------------------------------------------------------------ Iterator: seek
SeekRanges == {<<(<<1>>), NoEnd>>, <<(<<1>>), <<(<<2>>)>> >>}

\* The main thread fills the store, scans and seeks; every thread reads the
\* cursor.
NextSeek ==
    \/ Database_open(MainThread, NoUrl)
    \/ \E t \in Threads : Future_open(t)
    \/ \E k \in NonEmptyKeys, v \in OneValue : Database_put(MainThread, k, v)
    \/ \E t \in Threads : Future_put(t)
    \/ \E r \in SeekRanges : Database_scan(MainThread, r[1], r[2])
    \/ \E t \in Threads : Future_scan(t)
    \/ \E t \in Threads : Iterator_next_entry(t)
    \/ \E k \in Keys : Iterator_seek(MainThread, k)
    \/ \E t \in Threads : Iterator_lock(t)
    \/ \E t \in Threads : Future_next(t)
    \/ \E t \in Threads : Future_seek(t)
    \/ \E t \in Threads : BridgeReturn(t)

SpecSeek == Init /\ [][NextSeek]_vars

\* ------------------------------------------------------------------ Iterator: close
\* The main thread scans; every thread reads and closes the cursor.
NextClose ==
    \/ Database_open(MainThread, NoUrl)
    \/ \E t \in Threads : Future_open(t)
    \/ Database_put(MainThread, <<1>>, "v1")
    \/ \E t \in Threads : Future_put(t)
    \/ Database_scan(MainThread, <<1>>, NoEnd)
    \/ \E t \in Threads : Future_scan(t)
    \/ \E t \in Threads : Iterator_next_entry(t)
    \/ \E t \in Threads : Iterator_close(t)
    \/ \E t \in Threads : Iterator_lock(t)
    \/ \E t \in Threads : Future_next(t)
    \/ \E t \in Threads : Future_iterator_close(t)
    \/ \E t \in Threads : BridgeReturn(t)

SpecClose == Init /\ [][NextClose]_vars

\* ------------------------------------------------------------------ Transaction: buffer and view
\* The main thread runs one transaction and reads the database directly;
\* the other threads write the database directly ("v1"); every thread reads
\* inside the transaction, whose own writes are "v2" and deletes.
NextView ==
    \/ Database_open(MainThread, NoUrl)
    \/ \E t \in Threads : Future_open(t)
    \/ \E t \in Threads \ {MainThread} : Database_put(t, <<1>>, "v1")
    \/ \E t \in Threads : Future_put(t)
    \/ Database_get(MainThread, <<1>>)
    \/ \E t \in Threads : Future_get(t)
    \/ Database_begin_transaction(MainThread, "snapshot", 1)
    \/ \E t \in Threads : Future_begin(t)
    \/ \E k \in NonEmptyKeys : Transaction_put(MainThread, 1, k, "v2")
    \/ Transaction_put_with_options(MainThread, 1, <<1>>, "v2", "5")
    \/ Transaction_delete(MainThread, 1, <<2>>)
    \/ \E t \in Threads : Transaction_get(t, 1, <<1>>)
    \/ Transaction_scan(MainThread, 1, <<1>>, NoEnd)
    \/ Transaction_commit(MainThread, 1)
    \/ Transaction_rollback(MainThread, 1)
    \/ \E t \in Threads : Future_transaction_get(t)
    \/ \E t \in Threads : Future_transaction_scan(t)
    \/ \E t \in Threads : Future_commit(t)
    \/ \E t \in Threads : BridgeReturn(t)

SpecView == Init /\ [][NextView]_vars

\* ------------------------------------------------------------------ Reader: object store URLs
ResolverUrls == {"bad", "foo://x", "s3://bucket", "s3://", "memory:///",
                 "file:///data"}

NextResolve ==
    \/ \E t \in Threads, u \in ResolverUrls :
          Reader_open(t, u, NoCheckpoint, <<Absent, Absent, Absent>>)
    \/ \E t \in Threads : Future_reader_open(t)
    \/ \E t \in Threads : Reader_get(t, <<1>>)
    \/ \E t \in Threads : Future_reader_get(t)
    \/ \E t \in Threads : Reader_close(t)
    \/ \E t \in Threads : Future_reader_close(t)
    \/ \E t \in Threads : BridgeReturn(t)

SpecResolve == Init /\ [][NextResolve]_vars

\* ------------------------------------------------------------------ Bridge: interrupts
\* Threads read, write and close the database and interrupt one another.
NextCancel ==
    \/ Database_open(MainThread, NoUrl)
    \/ \E t \in Threads : Future_open(t)
    \/ \E t \in Threads : Database_get(t, <<1>>)
    \/ \E t \in Threads : Future_get(t)
    \/ \E t \in Threads : Database_put(t, <<1>>, "v1")
    \/ \E t \in Threads : Future_put(t)
    \/ \E t \in Threads : Database_close(t)
    \/ \E t \in Threads : Future_close(t)
    \/ \E t, u \in Threads : Thread_interrupt(t, u)
    \/ \E t \in Threads : BridgeReturn(t)

SpecCancel == Init /\ [][NextCancel]_vars

\* ------------------------------------------------------------------ Database.close and derived handles
\* The main thread derives a snapshot, a transaction and a cursor; every
\* thread closes the database and queries the handles.
NextDerived ==
    \/ Database_open(MainThread, NoUrl)
    \/ \E t \in Threads : Future_open(t)
    \/ Database_snapshot(MainThread)
    \/ \E t \in Threads : Future_snapshot(t)
    \/ Database_begin_transaction(MainThread, "snapshot", 1)
    \/ \E t \in Threads : Future_begin(t)
    \/ Database_scan(MainThread, <<1>>, NoEnd)
    \/ \E t \in Threads : Future_scan(t)
    \/ \E t \in Threads : Database_close(t)
    \/ \E t \in Threads : Future_close(t)
    \/ Snapshot_get(MainThread, <<1>>)
    \/ \E t \in Threads : Future_snapshot_get(t)
    \/ \E t \in Threads : Snapshot_is_closed(t)
    \/ Transaction_get(MainThread, 1, <<1>>)
    \/ \E t \in Threads : Future_transaction_get(t)
    \/ Transaction_is_closed(MainThread, 1)
    \/ Iterator_next_entry(MainThread)
    \/ \E t \in Threads : Iterator_lock(t)
    \/ \E t \in Threads : Future_next(t)
    \/ \E t \in Threads : BridgeReturn(t)

SpecDerived == Init /\ [][NextDerived]_vars

\* ------------------------------------------------------------------ Opens and their resolver
OpenUrls == {"s3://bucket", "memory:///"}

NextOpens ==
    \/ \E t \in Threads, u \in OpenUrls : Database_open(t, u)
    \/ \E t \in Threads : Future_open(t)
    \/ \E t \in Threads, u \in OpenUrls :
          Reader_open(t, u, NoCheckpoint, <<Absent, Absent, Absent>>)
    \/ \E t \in Threads : Future_reader_open(t)
    \/ \E t \in Threads, u \in OpenUrls : Admin_new(t, u)
    \/ \E t \in Threads : Future_admin_new(t)
    \/ \E t \in Threads : BridgeReturn(t)

SpecOpens == Init /\ [][NextOpens]_vars

\* ------------------------------------------------------------------ Errors: mapper and constructors
\* The main thread derives and closes a snapshot and a cursor; every thread
\* reads the database, the snapshot and the cursor, with keys good and empty,
\* and the engine fails with every kind of error.
NextFallback ==
    \/ Database_open(MainThread, NoUrl)
    \/ \E t \in Threads : Future_open(t)
    \/ \E t \in Threads, k \in OneKey : Database_get(t, k)
    \/ \E t \in Threads : Future_get(t)
    \/ \E t \in Threads, k \in ErrorKinds : Future_fail(t, k)
    \/ Database_snapshot(MainThread)
    \/ \E t \in Threads : Future_snapshot(t)
    \/ Snapshot_close(MainThread)
    \/ \E t \in Threads : Snapshot_get(t, <<1>>)
    \/ \E t \in Threads : Future_snapshot_get(t)
    \/ Database_scan(MainThread, <<1>>, NoEnd)
    \/ \E t \in Threads : Future_scan(t)
    \/ Iterator_close(MainThread)
    \/ \E t \in Threads : Iterator_next_entry(t)
    \/ \E t \in Threads : Iterator_lock(t)
    \/ \E t \in Threads : Future_next(t)
    \/ \E t \in Threads : Future_iterator_close(t)
    \/ \E t \in Threads : BridgeReturn(t)

SpecFallback == Init /\ [][NextFallback]_vars

\* ------------------------------------------------------------------ Closed handles
\* The main thread derives a snapshot, a transaction and a cursor and uses
\* them; every thread closes and queries them.
NextAbsorb ==
    \/ Database_open(MainThread, NoUrl)
    \/ \E t \in Threads : Future_open(t)
    \/ Database_snapshot(MainThread)
    \/ \E t \in Threads : Future_snapshot(t)
    \/ Database_begin_transaction(MainThread, "snapshot", 1)
    \/ \E t \in Threads : Future_begin(t)
    \/ Database_scan(MainThread, <<1>>, NoEnd)
    \/ \E t \in Threads : Future_scan(t)
    \/ Snapshot_get(MainThread, <<1>>)
    \/ \E t \in Threads : Future_snapshot_get(t)
    \/ \E t \in Threads : Snapshot_close(t)
    \/ \E t \in Threads : Snapshot_is_closed(t)
    \/ Transaction_get(MainThread, 1, <<1>>)
    \/ \E t \in Threads : Future_transaction_get(t)
    \/ Transaction_put(MainThread, 1, <<1>>, "v1")
    \/ Transaction_commit(MainThread, 1)
    \/ \E t \in Threads : Future_commit(t)
    \/ \E t \in Threads : Transaction_rollback(t, 1)
    \/ \E t \in Threads : Transaction_is_closed(t, 1)
    \/ Iterator_next_entry(MainThread)
    \/ \E t \in Threads : Iterator_close(t)
    \/ \E t \in Threads : Iterator_lock(t)
    \/ \E t \in Threads : Future_next(t)
    \/ \E t \in Threads : Future_iterator_close(t)
    \/ \E t \in Threads : BridgeReturn(t)

SpecAbsorb == Init /\ [][NextAbsorb]_vars

\* ------------------------------------------------------------------ Admin
NextAdmin ==
    \/ \E t \in Threads, u \in Urls : Admin_new(t, u)
    \/ \E t \in Threads : Future_admin_new(t)
    \/ \E t \in Threads : Admin_read_manifest(t)
    \/ \E t \in Threads : Admin_list_manifests(t)
    \/ \E t \in Threads : Admin_list_checkpoints(t)
    \/ \E t \in Threads, kw \in CheckpointKwargs : Admin_create_checkpoint(t, kw)
    \/ \E t \in Threads, id \in {"uuid", "not-a-uuid"} :
          Admin_refresh_checkpoint(t, id)
    \/ \E t \in Threads, id \in {"uuid", "not-a-uuid"} :
          Admin_delete_checkpoint(t, id)
    \/ \E t \in Threads : Admin_run_gc(t, NoGcKwargs)
    \/ \E t \in Threads : Future_admin(t)
    \/ \E t \in Threads, k \in ErrorKinds : Future_admin_fail(t, k)
    \/ \E t \in Threads : BridgeReturn(t)

SpecAdmin == Init /\ [][NextAdmin]_vars

\* Garbage collection run from the main thread with every combination of
\* ages, next to manifest reads from the other threads.
NextGc ==
    \/ Admin_new(MainThread, NoUrl)
    \/ \E kw \in GcKwargs : Admin_run_gc(MainThread, kw)
    \/ \E t \in Threads \ {MainThread} : Admin_read_manifest(t)
    \/ \E t \in Threads : Future_admin(t)
    \/ \E t \in Threads : Future_admin_fail(t, "Unavailable")
    \/ \E t \in Threads : BridgeReturn(t)

SpecGc == Init /\ [][NextGc]_vars

\* ------------------------------------------------------------------ Iterator
NextIter ==
    \/ Database_open(MainThread, NoUrl)
    \/ \E t \in Threads : Future_open(t)
    \/ \E k \in NonEmptyKeys, v \in OneValue : Database_put(MainThread, k, v)
    \/ \E t \in Threads : Future_put(t)
    \/ \E r \in OneRange : Database_scan(MainThread, r[1], r[2])
    \/ \E t \in Threads : Future_scan(t)
    \/ \E t \in Threads : Iterator_next_entry(t)
    \/ \E t \in Threads : Iterator_next_entry_bytes(t)
    \/ \E t \in Threads, k \in Keys : Iterator_seek(t, k)
    \/ \E t \in Threads : Iterator_close(t)
    \/ \E t \in Threads : Iterator_lock(t)
    \/ \E t \in Threads : Future_next(t)
    \/ \E t \in Threads : Future_seek(t)
    \/ \E t \in Threads : Future_iterator_close(t)
    \/ \E t \in Threads : BridgeReturn(t)

SpecIter == Init /\ [][NextIter]_vars

\* ================================================================== claims
LifecycleOps ==
    {"Snapshot.get", "Snapshot.get_with_options", "Snapshot.scan",
     "Snapshot.scan_with_options",
     "Transaction.get", "Transaction.get_with_options", "Transaction.put",
     "Transaction.put_with_options", "Transaction.delete", "Transaction.scan",
     "Transaction.scan_with_options"}
CommitOps == {"Transaction.commit", "Transaction.commit_with_options"}
WriteOps == {"Database.write", "Database.write_with_options"}

\* C1: a get, put, delete or scan (plain or with options) with well-formed
\* arguments on a Snapshot or Transaction that is Closed fails with
\* ClosedError and makes no engine call and no bridge call.
C1_ClosedHandleRejects ==
    (last.op \in LifecycleOps /\ last.wasClosed /\ last.wellFormed)
        => /\ last.status = "err"
           /\ last.class = "ClosedError"
           /\ last.engine = 0
           /\ last.bridge = 0

\* C4: a commit call leaves the handle Closed whatever its outcome, and a
\* commit on a Closed handle fails with ClosedError without an engine call.
C4_CommitOnce ==
    /\ last.op \in CommitOps => txn[last.h].inner = "None"
    /\ (last.op \in CommitOps /\ last.wasClosed)
          => /\ last.status = "err"
             /\ last.class = "ClosedError"
             /\ last.engine = 0
             /\ last.bridge = 0

\* C5: of two serializable transactions that wrote a common key while both
\* were live at most one commit succeeds, the commit that loses fails with
\* TransactionError, and a handle whose commit reached the engine is Closed.
C5_SerializableConflict ==
    /\ \A j \in TxnIds :
          (txn[j].fate = "committed" /\ txn[j].iso = "SerializableSnapshot")
             => WrittenKeys(txn[j]) \cap txn[j].dirty = {}
    /\ (/\ last.op \in CommitOps
        /\ last.kind = "Transaction"
        /\ txn[last.h].iso = "SerializableSnapshot")
          => last.class = "TransactionError"
    /\ (last.op \in CommitOps /\ last.bridge = 1) => txn[last.h].inner = "None"

\* The write calls that have taken the batch and not yet returned.
Submitting == {t \in Threads : call[t].op \in WriteOps}

\* C6: take returns exactly the operations appended since the previous take,
\* in append order, and leaves the batch empty: the batch always holds the
\* operations appended after the last take, and what a take returned is the
\* stretch of the append history that starts where the previous take ended.
C6_TakeExact ==
    /\ takenLog = SubSeq(log, 1, Len(takenLog))
    /\ batch = SubSeq(log, Len(takenLog) + 1, Len(log))
    /\ \A t \in Submitting :
          call[t].data = SubSeq(log, call[t].from + 1,
                                call[t].from + Len(call[t].data))

\* A take after an earlier non-empty take returned the operations appended in
\* between, and only those.
C6_Witness ==
    \E t \in Submitting :
        /\ call[t].from > 0
        /\ call[t].data # <<>>
        /\ batch = <<>>

\* C7: every appended operation reaches the engine in at most one submission,
\* and no two submissions in flight carry the same operation.
C7_SubmittedOnce ==
    /\ \A i \in DOMAIN handed : handed[i] <= 1
    /\ \A t, u \in Submitting :
          t # u => OpIds(call[t].data) \cap OpIds(call[u].data) = {}
    /\ \A t \in Submitting : \A i \in OpIds(call[t].data) :
          pc[t] = "blocked" => handed[i] = 0

\* Two submissions of the one batch are blocked in the bridge together, each
\* with operations of its own.
C7_Witness ==
    \E t, u \in Threads :
        /\ t # u
        /\ pc[t] = "blocked" /\ pc[u] = "blocked"
        /\ call[t].op \in WriteOps /\ call[u].op \in WriteOps
        /\ call[t].data # <<>> /\ call[u].data # <<>>

\* C8: a thread inside a bridge call does not hold the host lock while the
\* future is pending or resolved, and holds it in the step that returns.
C8_LockReleasedWhileBlocked ==
    /\ [](\A t \in Threads : pc[t] # "ruby" => gvl # t)
    /\ [][\A t \in Threads : (pc[t] # "ruby" /\ pc'[t] = "ruby") => gvl' = t]_vars

\* While one thread waits in the bridge another has run, issued its own
\* engine call and waits as well.
C8_Witness ==
    \E t, u \in Threads :
        /\ t # u
        /\ pc[t] = "blocked" /\ pc[u] = "resolved"
        /\ gvl = NoThread

\* C10: the runtime is built at most once, in a step that enters a bridge
\* call, every bridge call in flight uses the runtime in the cell, and a
\* filled cell never changes.
C10_OneRuntime ==
    /\ [](/\ builds <= 1
          /\ \A t \in Threads : pc[t] # "ruby" => (RUNTIME # 0 /\ call[t].rt = RUNTIME))
    /\ [][RUNTIME # 0 => RUNTIME' = RUNTIME]_vars
    /\ [][RUNTIME' # RUNTIME
            => \E t \in Threads : pc[t] = "ruby" /\ pc'[t] = "blocked"]_vars

\* Two threads are in bridge calls at once and the builder has run once.
C10_Witness ==
    /\ builds = 1
    /\ \E t, u \in Threads :
          t # u /\ pc[t] = "blocked" /\ pc[u] = "blocked" /\ call[t].rt = call[u].rt

IterReadOps == {"Iterator.next", "Iterator.next_bytes", "Iterator.seek"}

\* C2: after Iterator.close() has returned, next, next_bytes and seek with a
\* well-formed key fail with ClosedError and perform no cursor operation.
C2_ClosedIteratorRejects ==
    (last.op \in IterReadOps /\ last.wasClosed /\ last.wellFormed)
        => /\ last.status = "err"
           /\ last.class = "ClosedError"
           /\ last.engine = 0

\* A next on the closed iterator has returned on the thread that loaded the
\* extension, without a cursor operation.
C2_Witness ==
    /\ last.op = "Iterator.next" /\ last.wasClosed
    /\ last.engine = 0
    /\ gvl = MainThread

ClosableOps == {"Database.get", "Database.put", "Database.delete",
                "Database.scan", "Database.flush", "Reader.get", "Reader.scan"}

\* C3: after close() has returned successfully on a Database or a Reader,
\* every later call on the handle with well-formed arguments fails with
\* ClosedError and makes no engine call.
C3_ClosedClientRejects ==
    (last.op \in ClosableOps /\ last.wasClosed /\ last.wellFormed)
        => /\ last.status = "err"
           /\ last.class = "ClosedError"
           /\ last.engine = 0

\* C9: while a thread is inside a bridge call no exception class has been
\* looked up for it: map_error runs only after the call is back.
C9_NoHostApiOffLock ==
    \A t \in Threads : pc[t] # "ruby" => call[t].class = "none"

\* The class the taxonomy gives each kind of engine error.
TaxonomyClass(kind) ==
    CASE kind = "Transaction" -> "TransactionError"
      [] kind = "Closed"      -> "ClosedError"
      [] kind = "Unavailable" -> "UnavailableError"
      [] kind = "Invalid"     -> "InvalidArgumentError"
      [] kind = "Data"        -> "DataError"
      [] OTHER                -> "InternalError"

\* C11: on a thread whose registry is populated, an engine error of each kind
\* is raised as the taxonomy class of that kind (any other kind as
\* InternalError), and that class descends from SlateDb::Error.
C11_MapErrorTaxonomy ==
    (last.status = "err" /\ last.kind \in ErrorKinds /\ registry[gvl])
        => /\ last.class = TaxonomyClass(last.kind)
           /\ Descends(last.class, "Error")
           /\ last.class # "Error"

\* An engine error of a kind outside the six named ones has come back on the
\* thread that ran initialization.
C11_Witness ==
    /\ last.status = "err" /\ last.kind = "Other" /\ last.class = "InternalError"
    /\ registry[gvl]

\* C12: after initialization an error mapped or constructed on any host
\* thread is raised as a class of the taxonomy, never as a fallback class.
C12_RegistryProcessWide ==
    last.status = "err" => Descends(last.class, "Error")

\* C13: an engine error of any operation, the Admin ones included, is raised
\* as the class the mapper gives its kind.  Stated on the thread whose
\* registry is populated, where the mapper itself is right (C11).
C13_SingleMapper ==
    (last.status = "err" /\ last.bridge = 1 /\ last.kind \in ErrorKinds
     /\ registry[gvl])
        => last.class = TaxonomyClass(last.kind)

\* Whether an option of a kwargs hash was given.
Given(v) == v \notin {Absent, Nil}
Ms(v) == IF v = "5" THEN 5 ELSE 7

\* The minimum age the claim gives one area.
ResolvedAge(kw, specific, default) ==
    IF Given(specific) THEN Ms(specific)
    ELSE IF Given(kw.min_age) THEN Ms(kw.min_age)
    ELSE default

\* C17: the engine's garbage collection runs with, per area, the area's
\* override if given, else the general minimum age if given, else the default
\* (1 day for the manifest, 1 minute for the WAL and the compacted area).
C17_GcMinAge ==
    (last.op = "Admin.run_gc" /\ last.bridge = 1)
        => LET kw == last.args[1]
               gc == last.args[2]
           IN /\ gc.manifest = ResolvedAge(kw, kw.manifest_min_age, DayMs)
              /\ gc.wal = ResolvedAge(kw, kw.wal_min_age, MinuteMs)
              /\ gc.compacted = ResolvedAge(kw, kw.compacted_min_age, MinuteMs)

\* A collection has run with a general age and an override of the manifest
\* area only: the manifest has the override, the other two the general age.
C17_Witness ==
    /\ last.op = "Admin.run_gc" /\ last.bridge = 1 /\ last.status = "ok"
    /\ last.args[1].min_age = "5" /\ last.args[1].manifest_min_age = "7"
    /\ last.args[1].wal_min_age = Absent
    /\ last.args[2] = [manifest |-> 7, wal |-> 5, compacted |-> 5]

\* The call was refused as an invalid argument before the bridge.
RefusedInvalid ==
    /\ last.status = "err" /\ last.class = "InvalidArgumentError"
    /\ last.bridge = 0 /\ last.engine = 0

EmptyKeyOps == {"Database.get", "Database.get_with_options",
                "Database.put_with_options", "Database.scan_with_options"}

\* C14: a call on the open Database that is given an empty key (or an empty
\* scan start key) fails with InvalidArgumentError before any engine call.
C14_EmptyKeyRejected ==
    (last.op \in EmptyKeyOps /\ last.key = EmptyKey) => RefusedInvalid

\* C15: a read or scan whose durability filter is a string other than
\* "remote" and "memory" fails with InvalidArgumentError and makes no engine
\* call.
C15_DurabilityFilterRejected ==
    (/\ last.op \in {"Database.get_with_options", "Database.scan_with_options"}
     /\ last.key # EmptyKey
     /\ last.args # <<>>
     /\ last.args[1].durability_filter = "invalid")
        => RefusedInvalid

\* The option values the field's type cannot take.
Unconvertible == {"-1", BadValue}

\* C16: a call whose option value cannot be converted to the type of its
\* field (ttl to an unsigned integer, dirty to a boolean, durability_filter
\* to a string) fails with InvalidArgumentError and makes no engine call.
\* Stated on the thread whose registry is populated.
C16_UnconvertibleOptionRejected ==
    (/\ last.key # EmptyKey
     /\ last.args # <<>>
     /\ registry[gvl]
     /\ \/ /\ last.op = "Database.put_with_options"
           /\ last.args[1] \in Unconvertible
        \/ /\ last.op = "Database.get_with_options"
           /\ \/ last.args[1].dirty = BadValue
              \/ last.args[1].durability_filter = BadValue)
        => RefusedInvalid

\* C18: begin-transaction with "snapshot", "si" or no literal starts a
\* transaction under snapshot isolation, with "serializable", "ssi" or
\* "serializable_snapshot" one under serializable isolation; any other
\* literal fails with InvalidArgumentError before the bridge, so with no
\* engine call and no Transaction handle.
C18_IsolationLiterals ==
    last.op = "Database.begin_transaction"
        => LET lit == last.args[1] IN
           IF lit \in {Absent, "snapshot", "si"}
           THEN last.bridge = 1
                /\ (last.status = "ok" => txn[last.h].iso = "Snapshot")
           ELSE IF lit \in {"serializable", "ssi", "serializable_snapshot"}
           THEN last.bridge = 1
                /\ (last.status = "ok" => txn[last.h].iso = "SerializableSnapshot")
           ELSE RefusedInvalid

UuidOps == {"Admin.create_checkpoint", "Admin.refresh_checkpoint",
            "Admin.delete_checkpoint"}

\* C19: an Admin call whose checkpoint id or checkpoint source is not a UUID
\* fails with InvalidArgumentError before the bridge: no engine call and no
\* object-store resolution is made for it.
C19_MalformedUuidRejected ==
    (last.op \in UuidOps /\ last.args[1] = "not-a-uuid") => RefusedInvalid

\* C20: on the open Database, a get of a key whose latest write was a
\* put(k, v) that has returned, with no other write to k since that put
\* began, returns v; after such a delete(k) it returns empty.
C20_PutGetDelete ==
    (/\ last.op = "Database.get" /\ last.status = "ok"
     /\ ~last.wasClosed
     /\ last.args[1] \notin {Unknown, Pending})
        => last.value = last.args[1]

\* A get has returned the value of the put before it.
C20_Witness ==
    /\ last.op = "Database.get" /\ last.status = "ok" /\ ~last.wasClosed
    /\ last.args = <<"v1">> /\ last.value = "v1"

\* A get has returned empty after the delete before it.
C20_WitnessDelete ==
    /\ last.op = "Database.get" /\ last.status = "ok" /\ ~last.wasClosed
    /\ last.args = <<NoValue>> /\ last.value = NoValue

NextOps == {"Iterator.next", "Iterator.next_bytes"}

\* The stored pairs of the iterator's range that lie after the last key it
\* yielded.
Remaining ==
    {k \in NonEmptyKeys :
        /\ iter.view[k] # NoValue
        /\ InRange(k, iter.start, iter.end)
        /\ (iter.lastKey = EmptyKey \/ KeyLess(iter.lastKey, k))}

\* A next that the cursor answers yields the smallest remaining pair, and
\* empty once none remains; the iterator stays open.
C21_NextStep ==
    \A t \in Threads :
        (/\ pc[t] = "locked" /\ pc'[t] = "resolved"
         /\ call[t].op \in NextOps
         /\ call'[t].res.status = "ok")
            => /\ iter'.inner = "Some"
               /\ IF Remaining = {}
                  THEN call'[t].res.value = NoValue /\ iter'.lastKey = iter.lastKey
                  ELSE /\ call'[t].key \in Remaining
                       /\ \A k \in Remaining : KeyLeq(call'[t].key, k)
                       /\ call'[t].res.value = iter.view[call'[t].key]
                       /\ iter'.lastKey = call'[t].key

\* C21: successive next() calls on an open iterator yield the stored pairs
\* with start <= key < end in strictly ascending key order, each once; once
\* the range is exhausted a next() returns empty, without error, and the
\* iterator stays open.
C21_ScanOrder == [][C21_NextStep]_vars

\* A next has returned empty after both pairs of the range were yielded.
C21_Witness ==
    /\ last.op \in NextOps /\ last.status = "ok" /\ last.value = NoValue
    /\ iter.inner = "Some" /\ iter.pos = 3 /\ iter.lastKey = <<2>>

\* The stored pairs of the iterator's range at or after key k.
AtOrAfter(k) ==
    {x \in NonEmptyKeys :
        iter.view[x] # NoValue /\ InRange(x, iter.start, iter.end) /\ KeyLeq(k, x)}

\* C22: the next() that follows a seek(k) on an open iterator returns the
\* pair with the smallest key >= k within the iterator's range, or empty if
\* there is none.
C22_SeekThenNext ==
    (/\ last.op \in NextOps /\ last.status = "ok"
     /\ last.args[1] # EmptyKey)
        => IF AtOrAfter(last.args[1]) = {}
           THEN last.value = NoValue
           ELSE /\ last.key \in AtOrAfter(last.args[1])
                /\ \A x \in AtOrAfter(last.args[1]) : KeyLeq(last.key, x)
                /\ last.value = iter.view[last.key]

\* Over the pairs 1 and 2, seek(2) and then next: the next returns pair 2.
C22_Witness ==
    /\ last.op \in NextOps /\ last.status = "ok"
    /\ last.args[1] = <<2>> /\ last.key = <<2>>
    /\ Len(iter.items) = 2

\* C23: every close of the iterator succeeds; when it returns the cursor is
\* released and the iterator is Closed, whether or not it was Closed before,
\* and a Closed iterator stays Closed.
C23_CloseIdempotent ==
    /\ last.op = "Iterator.close"
          => last.status = "ok" /\ iter.inner = "None" /\ iter.closed
    /\ iter.closed => iter.inner = "None"

\* A close of an iterator that was already Closed has returned.
C23_Witness ==
    last.op = "Iterator.close" /\ last.wasClosed /\ last.status = "ok"

\* C24 as stated: a next that was issued on the open iterator before any
\* close was issued is not overtaken by a later close, so it never finds the
\* cursor released.
C24_CloseWaitsForIssuedNext ==
    (last.op \in NextOps /\ last.args[2] = "open")
        => last.kind # "IteratorClosed"

\* A step of the cursor: it moves, is repositioned or is released.
CursorStep ==
    /\ iter.inner = "Some"
    /\ (iter'.inner # iter.inner \/ iter'.pos # iter.pos
        \/ iter'.lastKey # iter.lastKey)

\* C24, amended: the calls on one iterator are serialized by its Mutex: at
\* most one of them holds the cursor at a time, only the holder moves or
\* releases it, and a close takes effect only after a next that holds the
\* cursor has finished.
C24_Serialized ==
    /\ [](/\ Cardinality({t \in Threads : pc[t] = "locked"}) <= 1
          /\ \A t \in Threads : pc[t] = "locked" => iter.lock = t)
    /\ [][CursorStep =>
             /\ iter.lock # NoThread
             /\ pc[iter.lock] = "locked" /\ pc'[iter.lock] = "resolved"
             /\ \A u \in Threads \ {iter.lock} : pc[u] # "locked"]_vars

\* A close waits in the bridge while a next holds the cursor.
C24_Witness ==
    \E a, b \in Threads :
        /\ pc[a] = "locked" /\ call[a].op \in NextOps
        /\ pc[b] = "blocked" /\ call[b].op = "Iterator.close"

\* C25: a close of a Snapshot issued while a read of the same handle is
\* blocked in the bridge completes without fault (the same is claimed of
\* rollback and commit of a Transaction), and a read in the bridge always
\* has the handle's resource.
C25_CloseWhileReading ==
    /\ last.op = "Snapshot.close" => last.status = "ok"
    /\ \A t \in Threads :
          (pc[t] # "ruby" /\ call[t].op \in SnapshotBridgeOps) => snap.inner = "Some"

\* C26: rollback always succeeds, makes no bridge call and leaves the handle
\* Closed, and nothing a rolled-back transaction buffered reaches the store.
C26_RollbackAlwaysSucceeds ==
    /\ last.op = "Transaction.rollback"
          => /\ last.status = "ok"
             /\ last.bridge = 0
             /\ txn[last.h].inner = "None"
    /\ \A i \in TxnIds : txn[i].fate = "dropped" => WrittenKeys(txn[i]) = {}

TxnWriteOps == {"Transaction.put", "Transaction.put_with_options",
                "Transaction.delete"}

\* A step that buffers a write stays on the calling thread under the host
\* lock and leaves the store alone; the store changes only when the future
\* of a direct database write or of a commit resolves with success, and a
\* commit then applies exactly the writes its transaction buffered.
C27_Step ==
    /\ (\E i \in TxnIds, k \in NonEmptyKeys :
           /\ txn[i].inner = "Some" /\ txn'[i].inner = "Some"
           /\ txn'[i].writes[k] # txn[i].writes[k])
          => /\ store' = store
             /\ gvl' # NoThread /\ pc' = pc
             /\ last'.op \in TxnWriteOps /\ last'.bridge = 0
    /\ store' # store
          => \E t \in Threads :
                /\ pc[t] = "blocked" /\ pc'[t] = "resolved"
                /\ call'[t].res.status = "ok"
                /\ \/ call[t].op \in DbWriteOps
                   \/ /\ call[t].op \in CommitOps
                      /\ \A k \in NonEmptyKeys :
                            store'[k] = IF txn[call[t].h].writes[k] # Unset
                                        THEN txn[call[t].h].writes[k] ELSE store[k]

\* C27: put, put-with-options and delete of a transaction make no bridge
\* call (the host lock is not released) and only buffer the write: nothing
\* of it reaches the store, and so no Engine Client read, before a commit of
\* that transaction succeeds.
C27_WritesBuffered ==
    /\ [](last.op \in TxnWriteOps => last.bridge = 0)
    /\ [](\A k \in NonEmptyKeys :
             store[k] = "v2" => txn[1].fate = "committed" /\ txn[1].writes[k] = "v2")
    /\ [][C27_Step]_vars

\* A direct read finds nothing under a key the open transaction has written.
C27_Witness ==
    /\ last.op = "Database.get" /\ last.status = "ok" /\ last.value = NoValue
    /\ txn[1].inner = "Some" /\ txn[1].writes[last.key] = "v2"

\* What a read inside transaction x must see under key k.
Layered(x, k) == IF x.writes[k] # Unset THEN x.writes[k] ELSE x.base[k]

\* The engine read of a get or scan inside a transaction returns the buffered
\* writes over the base view; the base view is the store at begin and never
\* changes afterwards.
C28_Step ==
    /\ \A t \in Threads :
          (/\ pc[t] = "blocked" /\ pc'[t] = "resolved"
           /\ call[t].op \in TxnBridgeReadOps
           /\ call'[t].res.status = "ok")
             => LET x == txn[call[t].h] IN
                IF call[t].op \in ScanOps
                THEN /\ \A k \in NonEmptyKeys : call'[t].view[k] = Layered(x, k)
                     /\ {call'[t].data[n] : n \in 1..Len(call'[t].data)}
                           = {k \in NonEmptyKeys :
                                 /\ Layered(x, k) # NoValue
                                 /\ InRange(k, call[t].key, call[t].end)}
                ELSE call'[t].res.value = Layered(x, call[t].key)
    /\ \A i \in TxnIds :
          /\ (txn[i].inner = "absent" /\ txn'[i].inner # "absent")
                => txn'[i].base = store
          /\ (txn[i].inner \in {"unborn", "Some"} /\ txn'[i].inner \in {"unborn", "Some"})
                => txn'[i].base = txn[i].base

\* C28: a get or scan inside an Open transaction returns the transaction's
\* own buffered puts and deletes layered over the base view fixed at begin;
\* what others commit after begin is not returned.
C28_TransactionView == [][C28_Step]_vars

\* A get inside the transaction returned nothing for a key it has not
\* written although the store holds a value written after begin.
C28_Witness ==
    /\ last.op = "Transaction.get" /\ last.status = "ok" /\ last.value = NoValue
    /\ txn[1].inner = "Some" /\ txn[1].writes[last.key] = Unset
    /\ txn[1].base[last.key] = NoValue /\ store[last.key] = "v1"

\* C29: resolving an object store URL fails as invalid when the URL cannot
\* be parsed and as unavailable when no backend can be built for it (unknown
\* scheme, or S3 without a bucket), before any engine call; an S3 URL is
\* built from the environment and every other known scheme is left to the
\* engine's resolver.
C29_ResolveObjectStore ==
    (last.op = "Reader.open" /\ last.args # <<>>)
        => LET u == last.args[1] IN
           /\ u = "bad" => last.kind = "Invalid" /\ last.engine = 0
           /\ u \in {"foo://x", "s3://"}
                 => last.kind = "Unavailable" /\ last.engine = 0
           /\ u \in {"s3://bucket", "s3://"} => last.args[2] = "from_env"
           /\ u \in {"memory:///", "file:///data"}
                 => last.args[2] = "engine" /\ last.engine = 1

\* A reader was opened on an S3 store built from the environment.
C29_Witness ==
    /\ last.op = "Reader.open" /\ last.status = "ok"
    /\ last.args = <<"s3://bucket", "from_env">>

InBridge == {"blocked", "locked", "resolved"}

\* A call in the bridge moves only forward: it is never thrown back to host
\* code, it is resolved only by a step of the engine (off the host lock, no
\* host method returning in that step), and a step that does not advance it
\* leaves it as it is.
C30_Step ==
    \A u \in Threads :
        /\ pc[u] \in {"blocked", "locked"}
              => /\ pc'[u] \in {pc[u], "locked", "resolved"}
                 /\ pc'[u] = "resolved"
                       => /\ call'[u].res.status # "pending"
                          /\ gvl' = gvl /\ last' = NoLast
                 /\ pc'[u] = pc[u] => call'[u] = call[u]
        /\ (pc[u] \in InBridge /\ pc'[u] = "ruby") => pc[u] = "resolved"

\* C30: once a bridge call is issued nothing a host thread does (interrupt,
\* kill, close of the handle) aborts it; it returns only after the engine
\* future behind it has resolved.
C30_NoCancellation == [][C30_Step]_vars

\* A thread has just been interrupted in the bridge and its call is still
\* in flight.
C30_Witness ==
    /\ last.op = "Thread.interrupt"
    /\ pc[last.h] = "blocked" /\ call[last.h].op = "Database.get"
    /\ call[last.h].res.status = "pending"

DerivedReadOps == SnapshotBridgeOps \cup TxnBridgeReadOps \cup NextOps

\* C31: no step of a Database.close changes whether a Snapshot, Transaction
\* or Iterator derived from the database is Open; after the close an Open
\* handle still answers is_closed with false, and its reads still go through
\* the bridge to the engine.
C31_CloseLeavesDerived ==
    /\ [][db'.Database # db.Database
             => /\ snap'.inner = snap.inner
                /\ \A i \in TxnIds : txn'[i].inner = txn[i].inner
                /\ iter'.inner = iter.inner /\ iter'.closed = iter.closed]_vars
    /\ [](EngineClosed("Database")
             => /\ (last.op = "Snapshot.is_closed" /\ snap.inner # "absent")
                      => last.value = "false" /\ snap.inner = "Some"
                /\ (last.op = "Transaction.is_closed" /\ txn[1].inner # "absent")
                      => last.value = "false" /\ txn[1].inner = "Some"
                /\ last.op \in DerivedReadOps
                      => last.bridge = 1 /\ last.engine = 1)

\* An Open snapshot answers is_closed with false after the database was
\* closed.
C31_Witness ==
    /\ last.op = "Snapshot.is_closed" /\ last.value = "false"
    /\ db.Database = "closed" /\ snap.inner = "Some"

\* A read of the snapshot went to the engine after the database was closed.
C31_WitnessForwarded ==
    /\ last.op = "Snapshot.get" /\ last.bridge = 1 /\ last.engine = 1
    /\ last.wasClosed = FALSE /\ db.Database = "closed"

\* C32: on a Closed Snapshot or Transaction a get, put, delete or scan with
\* malformed arguments (empty key, invalid option) fails with ClosedError
\* and makes no engine call; checked on the thread that loaded the
\* extension, where the exception classes are registered.
C32_ClosedBeforeValidation ==
    (/\ last.op \in LifecycleOps /\ last.wasClosed /\ ~last.wellFormed
     /\ gvl # NoThread /\ registry[gvl])
        => /\ last.status = "err"
           /\ last.class = "ClosedError"
           /\ last.engine = 0

\* C33: a scan or scan-with-options whose start key is good and whose end
\* bound is given and empty fails with InvalidArgumentError before any
\* bridge or engine call; checked on an Open handle and on the thread that
\* loaded the extension.
C33_EmptyEndRejected ==
    (/\ last.op \in ScanOps /\ last.key # EmptyKey /\ ~last.wellFormed
     /\ ~last.wasClosed
     /\ gvl # NoThread /\ registry[gvl])
        => /\ last.status = "err"
           /\ last.class = "InvalidArgumentError"
           /\ last.engine = 0 /\ last.bridge = 0

OpenOps == {"Database.open", "Reader.open", "Admin.new"}

\* C35: whichever of Database.open, Reader.open and Admin.new opens an S3
\* URL, the store is built with the environment-sourcing strategy of the
\* Object Store Resolver.
C35_OneResolver ==
    (last.op \in OpenOps /\ last.args # <<>> /\ last.args[1] = "s3://bucket")
        => last.args[2] = "from_env"

\* An error was raised by the mapper or a constructor on a thread whose
\* registry is empty.
RaisedUnregistered ==
    last.status = "err" /\ gvl # NoThread /\ ~registry[gvl]

\* C36 as stated: where the registry lookup fails, the mapper and the
\* constructors raise one and the same generic class whatever the kind.
C36_OneFallback ==
    RaisedUnregistered => last.class = "RuntimeError"

\* C36, amended: where the registry lookup fails, the mapper and the
\* constructors raise RuntimeError for every kind of error except an invalid
\* argument (the mapper's Invalid kind and invalid_argument_error), which is
\* raised as ArgumentError.
C36_FallbackClasses ==
    RaisedUnregistered
        => last.class = IF \/ last.kind = "Invalid"
                           \/ last.kind = "none" /\ ~last.wellFormed
                        THEN "ArgumentError" ELSE "RuntimeError"

\* The mapper fell back on an engine error of kind Invalid.
C36_Witness ==
    /\ RaisedUnregistered
    /\ last.kind = "Invalid" /\ last.bridge = 1 /\ last.class = "ArgumentError"

\* Each of the three constructors fell back.
C36_WitnessInvalid ==
    RaisedUnregistered /\ last.kind = "none" /\ ~last.wellFormed
C36_WitnessClosed ==
    RaisedUnregistered /\ last.op = "Snapshot.get" /\ last.wasClosed
C36_WitnessInternal ==
    RaisedUnregistered /\ last.kind = "IteratorClosed"

IsClosedOps == {"Snapshot.is_closed", "Transaction.is_closed"}

\* No step opens a Closed handle again; a step in which is_closed returns,
\* or in which close or rollback returns from a handle that was Closed,
\* changes no handle, and such a close or rollback succeeds.
C37_Step ==
    /\ snap.inner = "None" => snap'.inner = "None"
    /\ \A i \in TxnIds : txn[i].inner = "None" => txn'[i].inner = "None"
    /\ iter.inner = "None" => iter'.inner = "None"
    /\ last'.op \in IsClosedOps
          => snap' = snap /\ txn' = txn /\ iter' = iter
    /\ (last'.op \in {"Snapshot.close", "Transaction.rollback"} /\ last'.wasClosed)
          => /\ last'.status = "ok"
             /\ snap' = snap /\ txn' = txn /\ iter' = iter

\* C37: Closed is absorbing for Snapshot, Transaction and Iterator, close and
\* rollback on a Closed handle succeed and change nothing, and is_closed
\* answers with the handle's state without changing it.
C37_ClosedAbsorbing ==
    /\ [][C37_Step]_vars
    /\ [](/\ last.op = "Snapshot.is_closed"
                => last.value = IF snap.inner = "None" THEN "true" ELSE "false"
          /\ last.op = "Transaction.is_closed"
                => last.value = IF txn[last.h].inner = "None" THEN "true"
                                ELSE "false"
          /\ (last.op = "Iterator.close" /\ last.wasClosed)
                => last.status = "ok" /\ iter.inner = "None")

\* A rollback of a Closed transaction succeeded.
C37_Witness ==
    /\ last.op = "Transaction.rollback" /\ last.wasClosed /\ last.status = "ok"
    /\ txn[1].inner = "None"

\* is_closed answered true on a Closed snapshot.
C37_WitnessQuery ==
    last.op = "Snapshot.is_closed" /\ last.value = "true" /\ snap.inner = "None"

\* The step that issues a write hands the engine what the batch held and
\* leaves the batch empty before any engine call; neither the step in which
\* the engine answers, with success or with an error, nor the return of the
\* write touches the batch.
C38_Step ==
    \A t \in Threads :
        /\ (pc[t] = "ruby" /\ pc'[t] = "blocked" /\ call'[t].op \in WriteOps)
              => /\ batch' = <<>>
                 /\ call'[t].data = batch
                 /\ call'[t].engine = 0
        /\ (pc[t] # "ruby" /\ pc'[t] # pc[t] /\ call[t].op \in WriteOps)
              => batch' = batch

\* C38: write and write-with-options empty the WriteBatch before the engine
\* write is issued; a write that fails in the engine does not restore the
\* operations, so a retry with the same batch submits nothing.
C38_BatchEmptiedBeforeWrite == [][C38_Step]_vars

\* A retry is in the bridge with nothing to submit: the first operation was
\* handed to the engine by a write that failed, and the batch was not
\* refilled.
C38_Witness ==
    \E t \in Threads :
        /\ pc[t] = "blocked" /\ call[t].op \in WriteOps /\ call[t].data = <<>>
        /\ Len(log) = 1 /\ handed[1] = 1 /\ store[log[1].key] = NoValue

\* A commit of the transaction of the call in `last` is in the bridge.
CommitInFlight ==
    \E u \in Threads :
        pc[u] # "ruby" /\ call[u].op \in CommitOps /\ call[u].h = last.h

\* C39: while a commit is blocked in the bridge, is_closed on the same
\* transaction answers true and a get, put, delete, scan or commit with
\* well-formed arguments from another thread fails with ClosedError.
C39_ClosedAtCommitIssue ==
    CommitInFlight
        => /\ last.op = "Transaction.is_closed" => last.value = "true"
           /\ (last.op \in LifecycleOps \cup CommitOps /\ last.wellFormed)
                 => last.status = "err" /\ last.class = "ClosedError"

\* The same on the thread that loaded the extension, and without the class.
C39_OnInitThread ==
    CommitInFlight
        => /\ last.op = "Transaction.is_closed" => last.value = "true"
           /\ (last.op \in LifecycleOps \cup CommitOps /\ last.wellFormed)
                 => /\ last.status = "err" /\ last.bridge = 0
                    /\ registry[gvl] => last.class = "ClosedError"

\* ------------------------------------------------- every bridge call returns
\* Threads share one iterator, one snapshot and one transaction of a database
\* and read the database itself, all through the bridge.
NextLive ==
    \/ Database_open(MainThread, NoUrl)
    \/ \E t \in Threads : Future_open(t)
    \/ Database_scan(MainThread, <<1>>, NoEnd)
    \/ \E t \in Threads : Future_scan(t)
    \/ Database_snapshot(MainThread)
    \/ \E t \in Threads : Future_snapshot(t)
    \/ Database_begin_transaction(MainThread, Absent, 1)
    \/ \E t \in Threads : Future_begin(t)
    \/ \E t \in Threads \ {MainThread} : Database_get(t, <<1>>)
    \/ \E t \in Threads : Future_get(t)
    \/ \E t \in Threads : Iterator_next_entry(t)
    \/ \E t \in Threads : Iterator_seek(t, <<1>>)
    \/ \E t \in Threads : Iterator_close(t)
    \/ \E t \in Threads : Iterator_lock(t)
    \/ \E t \in Threads : Future_next(t)
    \/ \E t \in Threads : Future_seek(t)
    \/ \E t \in Threads : Future_iterator_close(t)
    \/ \E t \in Threads : Snapshot_get(t, <<1>>)
    \/ \E t \in Threads : Future_snapshot_get(t)
    \/ \E t \in Threads : Snapshot_close(t)
    \/ \E t \in Threads : Transaction_get(t, 1, <<1>>)
    \/ \E t \in Threads : Future_transaction_get(t)
    \/ \E t \in Threads : Transaction_rollback(t, 1)
    \/ \E t \in Threads : BridgeReturn(t)

\* What happens to a call in the bridge without its thread doing anything:
\* the engine's future resolves, and the thread takes the host lock back.
EngineStep(t) ==
    \/ Future_open(t)
    \/ Future_scan(t)
    \/ Future_snapshot(t)
    \/ Future_begin(t)
    \/ Future_get(t)
    \/ Future_next(t)
    \/ Future_seek(t)
    \/ Future_iterator_close(t)
    \/ Future_snapshot_get(t)
    \/ Future_transaction_get(t)
    \/ BridgeReturn(t)

\* Every engine future eventually resolves and the host scheduler hands the
\* lock to a thread that waits for it; the tokio Mutex queues its waiters, so
\* a future that waits for it gets it once it is released often enough.
FairLive ==
    \A t \in Threads : WF_vars(EngineStep(t)) /\ SF_vars(Iterator_lock(t))

SpecLive == Init /\ [][NextLive]_vars /\ FairLive

\* C40: under fairness, with every engine future resolving, every call that
\* entered the bridge returns to its host thread.
C40_EveryBridgeCallReturns ==
    \A t \in Threads : (pc[t] # "ruby") ~> (pc[t] = "ruby")

\* A seek waits for the Mutex of the shared iterator that a next of another
\* thread holds, while the snapshot has been closed.
C40_Witness ==
    \E t, u \in Threads :
        /\ pc[t] = "blocked" /\ call[t].op = "Iterator.seek"
        /\ pc[u] = "locked" /\ iter.lock = u
        /\ call[u].op = "Iterator.next"
        /\ snap.inner = "None"

====
